---- MODULE Spec2Model ----
(***************************************************************************)
(* A model of trajectorykit: the agent loop (agent.py dispatch), the tool  *)
(* router (tool_store.py), the episode trace (tracing.py) and the live     *)
(* trace server's event stream (live_trace.py).                            *)
(*                                                                         *)
(* Texts are modelled by what the code reads of them: whether they start   *)
(* with "ERROR:", the identity of their first 200 characters, their length *)
(* outside any base64 payload and the length of that payload.              *)
(***************************************************************************)
EXTENDS Integers, Sequences, FiniteSets, TLC

\* ------------------------------------------------------------------ bounds
\* Tool calls (structured calls and text-embedded blocks) the completion
\* backend asks for over one whole run, sub-agents included.
MaxToolCalls == 3
\* Largest finite turn budget the caller gives the root episode.
MaxTurnLength == 2
\* Backend requests of one run that fail (a non-200 answer, no answer, a body
\* that does not decode).
MaxFaults == 2
\* Browsers that open /events on one live trace server.
MaxClients == 1
\* Events the producer broadcasts (push_turn and finalize calls).
MaxEvents == 3
\* Keep-alive timeouts (15 s without an event) over one run.
MaxKeepAlives == 1
\* Completion requests of one episode, sub-agents' included.
MaxRequests == 3

\* ------------------------------------------------------- program constants
MAX_RECURSION_DEPTH == 2
SUB_AGENT_TURN_BUDGET == 5
MAX_INLINE_CHARS == 500
TOKEN_SAFETY_MARGIN == 256
MAX_CONSECUTIVE_ERRORS == 3
\* MODEL_PROFILES["Qwen/Qwen3-8B"]["context_window"], the default model's.
CONTEXT_WINDOW == 32768
\* output[:200] in the error signature, msg_output[:200] in the preview.
SIGNATURE_CHARS == 200
PREVIEW_CHARS == 200
\* len("[file content saved to trace]")
PLACEHOLDER_CHARS == 29
\* len of the "\n\nFATAL: This same error has occurred N times in a row. ..."
\* directive for a one-digit N.
DIRECTIVE_CHARS == 172

\* Python's None, for values that are records otherwise.
None == [k |-> "None"]
\* Optional integers: <<>> is None, <<n>> is n.
NoInt == << >>
Some(n) == <<n>>

Last(s) == s[Len(s)]

\* ------------------------------------------------------------------- texts
\* A text the code handles as a str.
\*   id       what the text says (texts with the same fields are the same str)
\*   err      it starts with "ERROR:"
\*   head     the identity of its first 200 characters
\*   plain    its length outside a base64 payload
\*   b64      the length of the payload of its "--- f (base64) ---" section, 0 if none
\*   stripped the payload was replaced by the placeholder
\*   fatal    N when the "stop retrying" directive for N failures was appended, else 0
\* id and head are [src, tag, n] records.
Ident(src, tag, n) == [src |-> src, tag |-> tag, n |-> n]

Text(id, err, head, plain, b64) ==
    [k |-> "text", id |-> id, err |-> err, head |-> head,
     plain |-> plain, b64 |-> b64, stripped |-> FALSE, fatal |-> 0]

EmptyText == Text(Ident("", "", 0), FALSE, Ident("", "", 0), 0, 0)

\* len(tool_name)
NameLen(tool_name) ==
    CASE tool_name = "execute_code" -> 12
      [] tool_name = "add_numbers" -> 11
      [] tool_name = "spawn_agent" -> 11
      [] tool_name = "recall" -> 6
      [] OTHER -> 4

\* len(f"{tool_name}_t{turn}_{i}") with one-digit turn and index
KeyLen(key) == NameLen(key[1]) + 5

\* len(t)
TLen(t) ==
    CASE t.k = "text" -> t.plain + t.b64 + (IF t.fatal > 0 THEN DIRECTIVE_CHARS ELSE 0)
      [] t.k = "receipt" -> 39 + KeyLen(t.key) + PREVIEW_CHARS
      [] t.k = "spawn_json" -> 67 + t.response_len
      [] t.k = "refusal" -> 130
      [] OTHER -> 4

\* t.startswith("ERROR:")
StartsWithError(t) == t.k = "text" /\ t.err

\* t[:200]: the head, and what of an appended directive falls inside it.
First200(t) ==
    IF t.k = "text"
    THEN [k |-> "prefix", head |-> t.head, stripped |-> t.stripped,
          cut |-> IF t.plain + t.b64 >= SIGNATURE_CHARS THEN SIGNATURE_CHARS
                  ELSE t.plain + t.b64,
          fatal |-> IF t.plain + t.b64 < SIGNATURE_CHARS THEN t.fatal ELSE 0]
    ELSE [k |-> "prefix_of", of |-> t]

\* output += "\n\nFATAL: This same error has occurred {n} times in a row. ..."
\* (only texts that start with "ERROR:" get here)
AppendDirective(t, n) == [t EXCEPT !.fatal = n]

\* re.sub(r"(--- .+? \(base64\) ---\n).+?(\n---|$)", r"\1[file content saved to trace]\2", t):
\* the payload of the base64 section gives way to the placeholder.
StripBase64(t) ==
    IF t.k = "text" /\ t.b64 > 0
    THEN [t EXCEPT !.plain = t.plain + PLACEHOLDER_CHARS, !.b64 = 0, !.stripped = TRUE]
    ELSE t

\* The key built from the tool name alone.
StoreKeyByName(tool_name, turn, i) == <<tool_name, 0, 0>>

\* f"{tool_name}_t{turn}_{i}": the three parts can be read back from the key,
\* so the key is the triple.
StoreKey(tool_name, turn, i) == <<tool_name, turn, i>>

\* f"[Stored as '{key}'] ({n} chars) Preview: {preview}..."
Receipt(key, stored) ==
    [k |-> "receipt", key |-> key, chars |-> TLen(stored), preview |-> First200(stored)]

\* ------------------------------------------------------------------- tools
\* kwargs.get(key, default)
Get(args, key, default) == IF key \in DOMAIN args THEN args[key] ELSE default

NoArgs == << >>

\* f"ERROR: {str(e)}" for an exception e
ErrorText(exc) == Text(Ident("exception", exc, 0), TRUE, Ident("exception", exc, 0), 60, 0)

\* What the sandbox backend answers to one execute_code request.
\*   stdout, stderr: lengths; files: the length of the one fetched file's base64
\*   (0: no file); tag: the identity of the first characters of stdout/stderr.
Sandbox(status, tag, stdout, stderr, files) ==
    [status |-> status, tag |-> tag, stdout |-> stdout, stderr |-> stderr,
     files |-> files]

\* Successful runs: a long stdout; a short stdout with a large file (over the
\* inline limit only with the payload); a long stdout with a file.
SandboxSuccesses ==
    { Sandbox("Success", "s1", 560, 0, 0),
      Sandbox("Success", "s2", 60, 0, 450),
      Sandbox("Success", "s3", 480, 0, 300) }

\* Failed runs: two whose stderr start alike and differ after 200 characters of
\* output, and one that differs from the start.
SandboxFailures ==
    { Sandbox("Failed", "a", 0, 170, 0),
      Sandbox("Failed", "a", 0, 700, 0),
      Sandbox("Failed", "b", 0, 170, 0) }

\* execute_code_wrapper on the sandbox's answer sb: the formatted result on
\* "Success" (exit code, time, STDOUT, FETCHED FILES with each file's base64
\* section), else "ERROR: Execution failed ..." with the return code and STDERR.
\* The first 200 characters take in the first 137 of stderr: two failures whose
\* stderr start alike (same tag) share them.
ExecuteCodeWrapper(tool_args, sb) ==
    IF "completion" \notin DOMAIN tool_args
    THEN ErrorText("execute_code() missing 1 required positional argument")
    ELSE IF sb.status = "Success"
    THEN Text(Ident("success", sb.tag, sb.stdout), FALSE, Ident("success", sb.tag, 0),
              44 + sb.stdout + (IF sb.files > 0 THEN 37 ELSE 0), sb.files)
    ELSE Text(Ident("failed", sb.tag, sb.stderr), TRUE, Ident("failed", sb.tag, 0),
              63 + sb.stderr, 0)

\* add_numbers_wrapper
AddNumbersWrapper(tool_args) ==
    IF "a" \notin DOMAIN tool_args \/ "b" \notin DOMAIN tool_args
    THEN Text(Ident("add_numbers", "required", 0), TRUE,
              Ident("add_numbers", "required", 0), 47, 0)
    ELSE Text(Ident("add_numbers", "sum", tool_args.a + tool_args.b), FALSE,
              Ident("add_numbers", "sum", tool_args.a + tool_args.b), 9, 0)

\* get_current_time_wrapper: "Current time: YYYY-MM-DD HH:MM:SS"
GetCurrentTimeWrapper(tool_args) ==
    Text(Ident("get_current_time", "", 0), FALSE, Ident("get_current_time", "", 0), 33, 0)

\* search_web_wrapper with no SERP_API_KEY configured:
\* "Error: SerpAPI key not configured. ..."
SearchWebWrapper(tool_args) ==
    Text(Ident("search_web", "nokey", 0), FALSE, Ident("search_web", "nokey", 0), 77, 0)

\* search_available_tools_wrapper: the summary, the schema of a tool, or
\* "ERROR: No tool named ..."
ToolNames ==
    {"execute_code", "get_current_time", "search_web", "add_numbers", "spawn_agent",
     "search_available_tools", "recall"}

SearchAvailableToolsWrapper(tool_args) ==
    IF "tool_name" \notin DOMAIN tool_args
    THEN Text(Ident("search_available_tools", "summary", 0), FALSE,
              Ident("search_available_tools", "summary", 0), 1400, 0)
    ELSE IF tool_args.tool_name \in ToolNames
    THEN Text(Ident("search_available_tools", tool_args.tool_name, 0), FALSE,
              Ident("search_available_tools", tool_args.tool_name, 0), 900, 0)
    ELSE Text(Ident("search_available_tools", "nosuch", 0), TRUE,
              Ident("search_available_tools", "nosuch", 0), 110, 0)

\* The scratchpad is a function from keys to texts; {} when empty.
EmptyScratchpad == << >>

NoKey == <<"", 0, 0>>

\* recall_wrapper looking the key up before it tests for an empty scratchpad.
RecallWrapperKeyFirst(scratchpad, tool_args) ==
    LET key == Get(tool_args, "key", NoKey)
        query == Get(tool_args, "query", "")
    IN  IF key # NoKey
        THEN IF key \in DOMAIN scratchpad
             THEN scratchpad[key]
             ELSE Text(Ident("recall", "noentry", Cardinality(DOMAIN scratchpad)), FALSE,
                       Ident("recall", "noentry", 0), 57, 0)
        ELSE IF DOMAIN scratchpad = {}
        THEN Text(Ident("recall", "empty", 0), FALSE, Ident("recall", "empty", 0), 49, 0)
        ELSE IF query # ""
        THEN LET hits == {c \in DOMAIN scratchpad :
                             scratchpad[c].k = "text" /\ scratchpad[c].head.tag = query}
             IN  IF hits # {}
                 THEN Text(Ident("recall", "found", Cardinality(hits)), FALSE,
                           Ident("recall", "found", Cardinality(hits)),
                           30 + 170 * Cardinality(hits), 0)
                 ELSE Text(Ident("recall", "nomatch", Cardinality(DOMAIN scratchpad)), FALSE,
                           Ident("recall", "nomatch", 0), 60, 0)
        ELSE Text(Ident("recall", "list", Cardinality(DOMAIN scratchpad)), FALSE,
                  Ident("recall", "list", 0), 13 + 110 * Cardinality(DOMAIN scratchpad), 0)

\* recall_wrapper: a query finds the entries whose text starts with it.
RecallWrapper(scratchpad, tool_args) ==
    LET key == Get(tool_args, "key", NoKey)
        query == Get(tool_args, "query", "")
    IN  IF DOMAIN scratchpad = {}
        THEN Text(Ident("recall", "empty", 0), FALSE, Ident("recall", "empty", 0), 49, 0)
        ELSE IF key # NoKey
        THEN IF key \in DOMAIN scratchpad
             THEN scratchpad[key]
             ELSE Text(Ident("recall", "noentry", Cardinality(DOMAIN scratchpad)), FALSE,
                       Ident("recall", "noentry", 0), 57, 0)
        ELSE IF query # ""
        THEN LET hits == {c \in DOMAIN scratchpad :
                             scratchpad[c].k = "text" /\ scratchpad[c].head.tag = query}
             IN  IF hits # {}
                 THEN Text(Ident("recall", "found", Cardinality(hits)), FALSE,
                           Ident("recall", "found", Cardinality(hits)),
                           30 + 170 * Cardinality(hits), 0)
                 ELSE Text(Ident("recall", "nomatch", Cardinality(DOMAIN scratchpad)), FALSE,
                           Ident("recall", "nomatch", 0), 60, 0)
        ELSE Text(Ident("recall", "list", Cardinality(DOMAIN scratchpad)), FALSE,
                  Ident("recall", "list", 0), 13 + 110 * Cardinality(DOMAIN scratchpad), 0)

\* spawn_agent's refusal at the depth cap:
\* json.dumps({"response": "[RECURSION LIMIT] ...", "turns_used": 0, "tool_calls_made": 0})
Refusal(depth) ==
    [k |-> "refusal", depth |-> depth, turns_used |-> 0, tool_calls_made |-> 0]

\* What the router hands back: an output with no child trace ("output"), an
\* exception that escapes it ("raise"), or a call of dispatch for a sub-agent
\* ("spawn"), whose result the wrapper turns into the output later.
Routed(kind, output, exc, turn_length, max_tokens, depth) ==
    [kind |-> kind, output |-> output, exc |-> exc, turn_length |-> turn_length,
     max_tokens |-> max_tokens, depth |-> depth]

RoutedOutput(output) == Routed("output", output, "", NoInt, NoInt, 0)

\* spawn_agent with the cap tested one level too late (_depth > MAX_RECURSION_DEPTH).
SpawnAgentCapOffByOne(turn_length, max_tokens, depth) ==
    LET tl == IF turn_length = NoInt THEN Some(SUB_AGENT_TURN_BUDGET) ELSE turn_length
    IN  IF depth > MAX_RECURSION_DEPTH
        THEN RoutedOutput(Refusal(depth))
        ELSE Routed("spawn", None, "", tl, Some(CONTEXT_WINDOW), depth + 1)

\* spawn_agent handing its own depth on (_depth=_depth).
SpawnAgentSameDepth(turn_length, max_tokens, depth) ==
    LET tl == IF turn_length = NoInt THEN Some(SUB_AGENT_TURN_BUDGET) ELSE turn_length
    IN  IF depth >= MAX_RECURSION_DEPTH
        THEN RoutedOutput(Refusal(depth))
        ELSE Routed("spawn", None, "", tl, Some(CONTEXT_WINDOW), depth)

\* spawn_agent handing on the turn_length it was given, None included.
SpawnAgentNoDefault(turn_length, max_tokens, depth) ==
    IF depth >= MAX_RECURSION_DEPTH
    THEN RoutedOutput(Refusal(depth))
    ELSE Routed("spawn", None, "", turn_length, Some(CONTEXT_WINDOW), depth + 1)

\* spawn_agent: the defaults, the refusal at the cap, else dispatch(...) one
\* level deeper with max_tokens = profile["context_window"].
SpawnAgent(turn_length, max_tokens, depth) ==
    LET tl == IF turn_length = NoInt THEN Some(SUB_AGENT_TURN_BUDGET) ELSE turn_length
    IN  IF depth >= MAX_RECURSION_DEPTH
        THEN RoutedOutput(Refusal(depth))
        ELSE Routed("spawn", None, "", tl, Some(CONTEXT_WINDOW), depth + 1)

\* spawn_agent_wrapper
SpawnAgentWrapper(depth, tool_args) ==
    IF Get(tool_args, "task", "") = ""
    THEN RoutedOutput(Text(Ident("spawn_agent", "required", 0), TRUE,
                           Ident("spawn_agent", "required", 0), 35, 0))
    ELSE SpawnAgent(Get(tool_args, "turn_length", Some(SUB_AGENT_TURN_BUDGET)),
                    Get(tool_args, "max_tokens", NoInt), depth)

\* The router letting a _depth among the model's arguments stand for its own.
DispatchToolCallArgsFirst(tool_name, tool_args, depth, scratchpad, sb) ==
    CASE tool_name = "execute_code" -> RoutedOutput(ExecuteCodeWrapper(tool_args, sb))
      [] tool_name = "get_current_time" -> RoutedOutput(GetCurrentTimeWrapper(tool_args))
      [] tool_name = "add_numbers" -> RoutedOutput(AddNumbersWrapper(tool_args))
      [] tool_name = "search_web" -> RoutedOutput(SearchWebWrapper(tool_args))
      [] tool_name = "spawn_agent" ->
           SpawnAgentWrapper(Get(tool_args, "_depth", depth), tool_args)
      [] tool_name = "search_available_tools" ->
           RoutedOutput(SearchAvailableToolsWrapper(tool_args))
      [] tool_name = "recall" ->
           IF "scratchpad" \in DOMAIN tool_args
           THEN Routed("raise", None, "got multiple values for keyword argument",
                       NoInt, NoInt, 0)
           ELSE RoutedOutput(RecallWrapper(scratchpad, tool_args))
      [] OTHER -> RoutedOutput(Text(Ident("unknown_tool", tool_name, 0), TRUE,
                                    Ident("unknown_tool", tool_name, 0), 26, 0))

\* dispatch_tool_call: sb is the sandbox's answer, read by execute_code only.
\* spawn_agent_wrapper(_depth=..., _model=..., _reasoning_effort=..., **tool_args)
\* is a TypeError when tool_args names one of the three itself, and so is
\* recall_wrapper(scratchpad=..., **tool_args) when tool_args names scratchpad:
\* both are raised by the call expression, outside the wrapper's try.
DispatchToolCall(tool_name, tool_args, depth, scratchpad, sb) ==
    CASE tool_name = "execute_code" -> RoutedOutput(ExecuteCodeWrapper(tool_args, sb))
      [] tool_name = "get_current_time" -> RoutedOutput(GetCurrentTimeWrapper(tool_args))
      [] tool_name = "add_numbers" -> RoutedOutput(AddNumbersWrapper(tool_args))
      [] tool_name = "search_web" -> RoutedOutput(SearchWebWrapper(tool_args))
      [] tool_name = "spawn_agent" ->
           IF DOMAIN tool_args \cap {"_depth", "_model", "_reasoning_effort"} # {}
           THEN Routed("raise", None, "got multiple values for keyword argument",
                       NoInt, NoInt, 0)
           ELSE SpawnAgentWrapper(depth, tool_args)
      [] tool_name = "search_available_tools" ->
           RoutedOutput(SearchAvailableToolsWrapper(tool_args))
      [] tool_name = "recall" ->
           IF "scratchpad" \in DOMAIN tool_args
           THEN Routed("raise", None, "got multiple values for keyword argument",
                       NoInt, NoInt, 0)
           ELSE RoutedOutput(RecallWrapper(scratchpad, tool_args))
      [] OTHER -> RoutedOutput(Text(Ident("unknown_tool", tool_name, 0), TRUE,
                                    Ident("unknown_tool", tool_name, 0), 26, 0))

\* ------------------------------------------------------------------- trace
\* The record made of the output as the conversation gets it, base64 stripped.
ToolCallRecordStripped(tool_name, tool_args, tool_call_id, output, child_trace) ==
    [tool_name |-> tool_name, tool_args |-> tool_args, tool_call_id |-> tool_call_id,
     output |-> StripBase64(output), child_trace |-> child_trace]

\* ToolCallRecord
ToolCallRecord(tool_name, tool_args, tool_call_id, output, child_trace) ==
    [tool_name |-> tool_name, tool_args |-> tool_args, tool_call_id |-> tool_call_id,
     output |-> output, child_trace |-> child_trace]

\* TurnRecord
TurnRecord(turn_number, assistant_content, usage) ==
    [turn_number |-> turn_number, assistant_content |-> assistant_content,
     tool_calls |-> << >>,
     prompt_tokens |-> usage.prompt_tokens,
     completion_tokens |-> usage.completion_tokens,
     total_tokens |-> usage.total_tokens]

\* EpisodeTrace(depth=..., user_input=..., max_tokens=..., turn_length=...)
EpisodeTrace(depth, user_input, max_tokens, turn_length) ==
    [k |-> "EpisodeTrace", depth |-> depth, user_input |-> user_input,
     max_tokens |-> max_tokens, turn_length |-> turn_length,
     turns |-> << >>, final_response |-> EmptyText,
     total_turns |-> 0, total_tool_calls |-> 0,
     total_tool_calls_recursive |-> 0, total_turns_recursive |-> 0,
     total_sub_agents_spawned |-> 0,
     total_prompt_tokens |-> 0, total_completion_tokens |-> 0, total_tokens |-> 0]

\* sum(f(x) for x in s)
RECURSIVE Sum(_)
Sum(ints) == IF ints = << >> THEN 0 ELSE Head(ints) + Sum(Tail(ints))

\* The Tool Call Records of a trace's own turns, in order.
RECURSIVE RecordsOf(_)
RecordsOf(turns) ==
    IF turns = << >> THEN << >> ELSE Head(turns).tool_calls \o RecordsOf(Tail(turns))

\* The aggregation without its reset of total_sub_agents_spawned: the count goes
\* on from the value the trace holds.
RECURSIVE ComputeRecursiveStatsNoReset(_)
ComputeRecursiveStatsNoReset(trace) ==
    LET Redo(tc) == IF tc.child_trace = None THEN tc
                    ELSE [tc EXCEPT !.child_trace = ComputeRecursiveStatsNoReset(@)]
        turns == [n \in 1..Len(trace.turns) |->
                     [trace.turns[n] EXCEPT !.tool_calls =
                         [j \in 1..Len(@) |-> Redo(@[j])]]]
        kids == SelectSeq(RecordsOf(turns), LAMBDA tc : tc.child_trace # None)
        SumOver(s, F(_)) == Sum([n \in 1..Len(s) |-> F(s[n])])
        P(t) == t.prompt_tokens
        C(t) == t.completion_tokens
        T(t) == t.total_tokens
        KCalls(tc) == tc.child_trace.total_tool_calls_recursive
        KTurns(tc) == tc.child_trace.total_turns_recursive
        KSubs(tc) == 1 + tc.child_trace.total_sub_agents_spawned
        KP(tc) == tc.child_trace.total_prompt_tokens
        KC(tc) == tc.child_trace.total_completion_tokens
        KT(tc) == tc.child_trace.total_tokens
    IN  [trace EXCEPT
            !.turns = turns,
            !.total_tool_calls_recursive = trace.total_tool_calls + SumOver(kids, KCalls),
            !.total_turns_recursive = trace.total_turns + SumOver(kids, KTurns),
            !.total_sub_agents_spawned = @ + SumOver(kids, KSubs),
            !.total_prompt_tokens = SumOver(turns, P) + SumOver(kids, KP),
            !.total_completion_tokens = SumOver(turns, C) + SumOver(kids, KC),
            !.total_tokens = SumOver(turns, T) + SumOver(kids, KT)]

\* EpisodeTrace.compute_recursive_stats: the trace with its aggregates set, every
\* child trace below it recomputed first.
RECURSIVE ComputeRecursiveStats(_)
ComputeRecursiveStats(trace) ==
    LET Redo(tc) == IF tc.child_trace = None THEN tc
                    ELSE [tc EXCEPT !.child_trace = ComputeRecursiveStats(@)]
        turns == [n \in 1..Len(trace.turns) |->
                     [trace.turns[n] EXCEPT !.tool_calls =
                         [j \in 1..Len(@) |-> Redo(@[j])]]]
        kids == SelectSeq(RecordsOf(turns), LAMBDA tc : tc.child_trace # None)
        SumOver(s, F(_)) == Sum([n \in 1..Len(s) |-> F(s[n])])
        P(t) == t.prompt_tokens
        C(t) == t.completion_tokens
        T(t) == t.total_tokens
        KCalls(tc) == tc.child_trace.total_tool_calls_recursive
        KTurns(tc) == tc.child_trace.total_turns_recursive
        KSubs(tc) == 1 + tc.child_trace.total_sub_agents_spawned
        KP(tc) == tc.child_trace.total_prompt_tokens
        KC(tc) == tc.child_trace.total_completion_tokens
        KT(tc) == tc.child_trace.total_tokens
    IN  [trace EXCEPT
            !.turns = turns,
            !.total_tool_calls_recursive = trace.total_tool_calls + SumOver(kids, KCalls),
            !.total_turns_recursive = trace.total_turns + SumOver(kids, KTurns),
            !.total_sub_agents_spawned = SumOver(kids, KSubs),
            !.total_prompt_tokens = SumOver(turns, P) + SumOver(kids, KP),
            !.total_completion_tokens = SumOver(turns, C) + SumOver(kids, KC),
            !.total_tokens = SumOver(turns, T) + SumOver(kids, KT)]

\* ---------------------------------------------------------------- dispatch
VARIABLES
    stack,       \* the active calls of dispatch, the root first: one frame each
    toolBudget,  \* tool calls the backend may still ask for in this run
    faultBudget, \* backend requests that may still fail in this run
    menu         \* what the model and the sandbox do in this run (see Menus)

\* The live trace server (live_trace.py)
VARIABLES
    httpd,       \* the server's shared state: started, sse_shutdown, sse_event_log,
                 \* sse_clients
    handlers,    \* one /events connection handler per client
    producer,    \* the thread that calls push_turn / finalize
    keepalives   \* keep-alive timeouts that may still fire in this run

\* One call of execute_code (tool_store.py)
VARIABLES
    sandbox      \* the call's arguments, its position in the retry loop, the
                 \* requests posted and the delays slept so far, its result

\* The completion requests of one episode (agent.py dispatch, _call_api)
VARIABLES
    api          \* the caller's model and reasoning_effort, the calls of dispatch
                 \* with what each resolved, the payloads posted so far

dispatchVars == << stack, toolBudget, faultBudget, menu >>
sseVars == << httpd, handlers, producer, keepalives >>
sandboxVars == << sandbox >>

\* The files written by EpisodeTrace.save (tracing.py)
VARIABLES
    files        \* the directories and files there are, the path save was given,
                 \* its position and its result


\* The card numbering of one live trace server (live_trace.py push_turn)
VARIABLES
    cards        \* the server's _card_counter and the cards of each "turn" event

otherVars == << api, files, cards >>

\* spawn_agent's JSON result for a finished sub-agent episode
SpawnJson(final_response, turns, tool_calls, depth) ==
    [k |-> "spawn_json", response |-> final_response,
     response_len |-> TLen(final_response),
     turns_used |-> turns, tool_calls_made |-> tool_calls, depth |-> depth]

Message(role, content) ==
    [role |-> role, content |-> content, tool_call_id |-> << >>,
     tool_calls |-> << >>, blocks |-> << >>]

\* The tool-result message without the id of its call.
ToolMessageUntagged(tool_call_id, content) == Message("tool", content)

ToolMessage(tool_call_id, content) ==
    [Message("tool", content) EXCEPT !.tool_call_id = tool_call_id]

\* SYSTEM_PROMPT if _depth == 0 else SUB_AGENT_SYSTEM_PROMPT
SystemPrompt(depth) ==
    IF depth = 0 THEN Text(Ident("SYSTEM_PROMPT", "", 0), FALSE,
                           Ident("SYSTEM_PROMPT", "", 0), 5000, 0)
    ELSE Text(Ident("SUB_AGENT_SYSTEM_PROMPT", "", 0), FALSE,
              Ident("SUB_AGENT_SYSTEM_PROMPT", "", 0), 1500, 0)

UserInput(depth) == Text(Ident("task", "", depth), FALSE, Ident("task", "", depth), 80, 0)

\* dispatch up to its loop: the resolved max_tokens, the trace, the seeded
\* conversation, the empty scratchpad, the counters.
NewFrame(turn_length, max_tokens, depth) ==
    LET mt == IF max_tokens = NoInt THEN CONTEXT_WINDOW ELSE max_tokens[1]
    IN  [depth |-> depth, turn_length |-> turn_length, max_tokens |-> mt,
         pc |-> "loop",
         episode |-> EpisodeTrace(depth, UserInput(depth), mt, turn_length),
         messages |-> << Message("system", SystemPrompt(depth)),
                         Message("user", UserInput(depth)) >>,
         scratchpad |-> EmptyScratchpad,
         turn |-> 0, total_tool_calls |-> 0,
         consecutive_error_count |-> 0, last_error_signature |-> None,
         context_window |-> CONTEXT_WINDOW,
         effective_max_tokens |-> mt,
         api_max_tokens |-> << >>,  \* max_tokens of this turn's backend requests
         api_responses |-> << >>,   \* and what came back for each
         turn_record |-> None, mode |-> "", pending |-> << >>, i |-> 0,
         result |-> None, exc |-> ""]

\* _finalize
Finalize(f, final_content) ==
    [f EXCEPT
        !.pc = "returned",
        !.episode = ComputeRecursiveStats(
                        [f.episode EXCEPT !.final_response = final_content,
                                          !.total_turns = f.turn,
                                          !.total_tool_calls = f.total_tool_calls]),
        !.result = [final_response |-> final_content, turns |-> f.turn,
                    tool_calls |-> f.total_tool_calls]]

\* The returned bundle: messages and trace are the frame's own objects.
ResultOf(f) ==
    [final_response |-> f.result.final_response, turns |-> f.result.turns,
     tool_calls |-> f.result.tool_calls, messages |-> f.messages, trace |-> f.episode]

\* if turn_length is not None and turn >= turn_length
TurnLimitReached(f) == f.turn_length # NoInt /\ f.turn >= f.turn_length[1]

\* The content of the first assistant message, "" if there is none.
FirstAssistantContent(messages) ==
    LET asst == { n \in 1..Len(messages) : messages[n].role = "assistant" }
    IN  IF asst = {} THEN EmptyText
        ELSE messages[CHOOSE n \in asst : \A m \in asst : n <= m].content

\* The content of the last assistant message, "" if there is none.
RECURSIVE LastAssistantContent(_)
LastAssistantContent(messages) ==
    IF messages = << >> THEN EmptyText
    ELSE IF Last(messages).role = "assistant" THEN Last(messages).content
    ELSE LastAssistantContent(SubSeq(messages, 1, Len(messages) - 1))

\* f"Error: {result}" and the "Context window exhausted" text
ApiErrorText(why, n) == Text(Ident("api_error", why, n), FALSE, Ident("api_error", why, n), 90, 0)

\* ------------------------------------------------- the completion backend
\* Structured tool calls the model may ask for: name, arguments, and whether
\* the arguments string decodes as JSON.
ToolCall(name, args, decodes) == [name |-> name, args |-> args, decodes |-> decodes]

\* The key the model asks recall for: one it was given a receipt for, or a guess.
RecallKeys(f) ==
    IF DOMAIN f.scratchpad = {} THEN {StoreKey("execute_code", 1, 1)}
    ELSE DOMAIN f.scratchpad

\* A <tool_call>{...}</tool_call> block of the text: ok when its JSON parses.
Block(ok, name, args) == [ok |-> ok, name |-> name, args |-> args]

\* The runs explored, by what the model asks for and what the backends answer:
\*   "faults"    failing backend requests, around one-turn sub-agents and a
\*               text-embedded plain tool call
\*   "delegate"  sub-agents (turn budget omitted, null, explicit) and a plain tool
\*   "errors"    failing tool calls: sandbox failures, undecodable arguments,
\*               an unknown tool, and a successful call between them
\*   "offload"   large outputs, base64 payloads, recall, and a sub-agent whose
\*               answer may be large
Menus == {"faults", "delegate", "errors", "offload"}

CallMenu(f) ==
    CASE menu = "faults" ->
           { ToolCall("spawn_agent", [task |-> "t", turn_length |-> Some(1),
                                      max_tokens |-> Some(1024)], TRUE) }
      [] menu = "delegate" ->
           { ToolCall("spawn_agent", [task |-> "t"], TRUE),
             ToolCall("spawn_agent", [task |-> "t", turn_length |-> Some(1)], TRUE),
             ToolCall("add_numbers", [a |-> 1, b |-> 2], TRUE) }
      [] menu = "errors" ->
           { ToolCall("execute_code", [completion |-> "fenced"], TRUE),
             ToolCall("add_numbers", [a |-> 1, b |-> 2], TRUE),
             ToolCall("add_numbers", [a |-> 1, b |-> 2], FALSE),
             ToolCall("spawn_agent", [task |-> "t", _depth |-> 0], TRUE),
             ToolCall("nope", NoArgs, TRUE) }
      [] OTHER ->
           { ToolCall("execute_code", [completion |-> "fenced"], TRUE),
             ToolCall("spawn_agent", [task |-> "t", turn_length |-> Some(1)], TRUE) }
           \cup { ToolCall("recall", [key |-> c], TRUE) : c \in RecallKeys(f) }

BlockMenu(f) ==
    CASE menu = "faults" -> { Block(TRUE, "add_numbers", [a |-> 1, b |-> 2]) }
      [] menu = "delegate" ->
           { Block(TRUE, "spawn_agent", [task |-> "t", turn_length |-> NoInt]) }
      [] menu = "errors" ->
           { Block(TRUE, "execute_code", [completion |-> "fenced"]),
             Block(FALSE, "", NoArgs) }
      [] OTHER -> { Block(TRUE, "execute_code", [completion |-> "fenced"]) }

SandboxResults == IF menu = "errors" THEN SandboxFailures ELSE SandboxSuccesses

\* The non-empty sequences over S of length at most n
SeqsUpTo(S, n) == UNION { [1..m -> S] : m \in 1..n }

\* "has N input tokens" as the backend reports it on an overflow:
\* a count that leaves room, one that leaves exactly none, one beyond the window.
InputTokenReports ==
    { CONTEXT_WINDOW - TOKEN_SAFETY_MARGIN - 1000,
      CONTEXT_WINDOW - TOKEN_SAFETY_MARGIN,
      CONTEXT_WINDOW + 5 }

\* What one POST to /chat/completions comes to.
\*   "final"     200, a message with no tool call (long: content over 500 chars)
\*   "tools"     200, a message with structured tool calls
\*   "text"      200, a message whose content (or reasoning) holds <tool_call> blocks
\*   "error"     non-200 whose error message names neither max_tokens nor
\*               max_completion_tokens
\*   "overflow"  non-200 naming max_tokens; input_tokens is the N of
\*               "has N input tokens", NoInt when the message has no such part
\*   "unreachable"  requests.post raises (no response)
\*   "badjson"   response.json() raises (the body is not JSON)
\*   "nochoices" 200 whose JSON has no "choices"
Response(kind, long, calls, blocks, input_tokens) ==
    [kind |-> kind, long |-> long, calls |-> calls, blocks |-> blocks,
     input_tokens |-> input_tokens]

Faults ==
    { Response(kind, FALSE, << >>, << >>, NoInt) :
         kind \in {"error", "overflow", "unreachable", "badjson", "nochoices"} }
    \cup { Response("overflow", FALSE, << >>, << >>, Some(n)) : n \in InputTokenReports }

Responses(f) ==
    { Response("final", long, << >>, << >>, NoInt) :
         long \in IF menu = "offload" THEN BOOLEAN ELSE {FALSE} }
    \cup { Response("tools", FALSE, calls, << >>, NoInt) :
              calls \in SeqsUpTo(CallMenu(f), toolBudget) }
    \cup { Response("text", FALSE, << >>, blocks, NoInt) :
              blocks \in SeqsUpTo(BlockMenu(f), toolBudget) }
    \cup (IF faultBudget > 0 THEN Faults ELSE {})

IsFault(resp) == resp.kind \notin {"final", "tools", "text"}

Raises(resp) == resp.kind \in {"unreachable", "badjson", "nochoices"}

\* result.get("usage", {}): the backend counts the messages it was sent as the
\* prompt; a backend that falls back to text-embedded calls sends no usage.
Usage(f, resp) ==
    IF resp.kind = "text"
    THEN [prompt_tokens |-> 0, completion_tokens |-> 0, total_tokens |-> 0]
    ELSE [prompt_tokens |-> Len(f.messages), completion_tokens |-> 1,
          total_tokens |-> Len(f.messages) + 1]

\* The assistant message of a 200 response.
AssistantContent(f, resp) ==
    IF resp.kind = "tools" THEN None
    ELSE Text(Ident("assistant", resp.kind, f.turn), FALSE,
              Ident("assistant", resp.kind, f.turn),
              IF resp.long THEN 600 ELSE 20, 0)

AssistantMessage(f, resp) ==
    [Message("assistant", AssistantContent(f, resp)) EXCEPT
        !.tool_calls = [n \in 1..Len(resp.calls) |->
                           [id |-> <<"call", f.turn, n>>, name |-> resp.calls[n].name,
                            args |-> resp.calls[n].args,
                            decodes |-> resp.calls[n].decodes]],
        !.blocks = resp.blocks]

\* ------------------------------------------------------- the turn loop
Top == stack[Len(stack)]
SetTop(f) == [stack EXCEPT ![Len(stack)] = f]

\* The turn closed without its record joining the trace.
EndTurnUnrecorded(f) ==
    [f EXCEPT !.turn_record = None, !.mode = "", !.pending = << >>, !.i = 0,
              !.pc = "loop"]

\* episode.turns.append(turn_record) at the end of a turn, back to the loop's top
EndTurn(f) ==
    [f EXCEPT !.episode.turns = Append(@, f.turn_record),
              !.turn_record = None, !.mode = "", !.pending = << >>, !.i = 0,
              !.pc = "loop"]

\* A 200 response: the assistant message joins the conversation, the Turn Record
\* is opened; tool calls are queued, or (none, and no text-embedded block) the
\* turn is recorded and the episode finalized with the message's content.
Accept(f, resp) ==
    LET msg == AssistantMessage(f, resp)
        f1 == [f EXCEPT !.messages = Append(@, msg),
                        !.turn_record = TurnRecord(f.turn, msg.content, Usage(f, resp))]
    IN  CASE resp.kind = "tools" ->
               [f1 EXCEPT !.total_tool_calls = @ + Len(msg.tool_calls),
                          !.mode = "structured", !.pending = msg.tool_calls,
                          !.i = 1, !.pc = "tools"]
          [] resp.kind = "text" ->
               [f1 EXCEPT !.mode = "text",
                          !.pending = [n \in 1..Len(msg.blocks) |->
                                          [id |-> <<"text_tc", f.turn, n>>,
                                           name |-> msg.blocks[n].name,
                                           args |-> msg.blocks[n].args,
                                           ok |-> msg.blocks[n].ok]],
                          !.i = 1, !.pc = "tools"]
          [] OTHER -> Finalize(EndTurn(f1), msg.content)

\* What the loop reads of a backend answer before the message: whether there
\* was one, its status class and error message.
Answer(resp) == [kind |-> resp.kind, input_tokens |-> resp.input_tokens]

\* The retry budget without the safety margin.
RetryBudgetNoMargin(f, input_tokens) == f.context_window - input_tokens

\* context_window - input_tokens - TOKEN_SAFETY_MARGIN
RetryBudget(f, input_tokens) == f.context_window - input_tokens - TOKEN_SAFETY_MARGIN

\* The overflow signal of a non-200 response: the error message names max_tokens
\* (or max_completion_tokens) and reports "has N input tokens".
OverflowSignal(resp) == resp.kind = "overflow" /\ resp.input_tokens # NoInt

\* The answer to the turn's first request (lines 145-177).
FirstResponse(f, resp) ==
    IF Raises(resp) THEN [f EXCEPT !.pc = "raised", !.exc = resp.kind]
    ELSE IF resp.kind \in {"final", "tools", "text"} THEN Accept(f, resp)
    ELSE IF OverflowSignal(resp)
    THEN IF RetryBudget(f, resp.input_tokens[1]) > 0
         THEN [f EXCEPT !.effective_max_tokens = RetryBudget(f, resp.input_tokens[1]),
                        !.pc = "retry"]
         ELSE Finalize(f, ApiErrorText("exhausted", resp.input_tokens[1]))
    ELSE Finalize(f, ApiErrorText(resp.kind, 0))

\* The answer to the retry (lines 160-165).
SecondResponse(f, resp) ==
    IF Raises(resp) THEN [f EXCEPT !.pc = "raised", !.exc = resp.kind]
    ELSE IF resp.kind \in {"final", "tools", "text"} THEN Accept(f, resp)
    ELSE Finalize(f, ApiErrorText(resp.kind, 0))

\* The turn's first backend request and what the loop does with the answer.
Turn ==
    /\ Top.pc = "loop"
    /\ ~TurnLimitReached(Top)
    /\ \E resp \in Responses(Top) :
          LET f == [Top EXCEPT !.turn = @ + 1,
                               !.effective_max_tokens = Top.max_tokens,
                               !.api_max_tokens = << Top.max_tokens >>,
                               !.api_responses = << Answer(resp) >>]
          IN  /\ stack' = SetTop(FirstResponse(f, resp))
              /\ toolBudget' = toolBudget - Len(resp.calls) - Len(resp.blocks)
              /\ faultBudget' = IF IsFault(resp) THEN faultBudget - 1 ELSE faultBudget
    /\ UNCHANGED << menu, sseVars, sandboxVars, otherVars >>

\* The retry with the recomputed max_tokens.
Retry ==
    /\ Top.pc = "retry"
    /\ \E resp \in Responses(Top) :
          LET f == [Top EXCEPT !.api_max_tokens = Append(@, Top.effective_max_tokens),
                               !.api_responses = Append(@, Answer(resp))]
          IN  /\ stack' = SetTop(SecondResponse(f, resp))
              /\ toolBudget' = toolBudget - Len(resp.calls) - Len(resp.blocks)
              /\ faultBudget' = IF IsFault(resp) THEN faultBudget - 1 ELSE faultBudget
    /\ UNCHANGED << menu, sseVars, sandboxVars, otherVars >>

\* The loop left at the turn limit (lines 127-130, 392-403).
TurnLimit ==
    /\ Top.pc = "loop"
    /\ TurnLimitReached(Top)
    /\ stack' = SetTop(Finalize(Top, LastAssistantContent(Top.messages)))
    /\ UNCHANGED << toolBudget, faultBudget, menu, sseVars, sandboxVars, otherVars >>

\* ------------------------------------------------------------ tool calls
\* scratchpad[key] = text
Put(scratchpad, key, text) ==
    [c \in DOMAIN scratchpad \cup {key} |-> IF c = key THEN text ELSE scratchpad[c]]

\* f"{tool_name}:{output[:200]}"
ErrorSignature(tool_name, output) == [tool_name |-> tool_name, prefix |-> First200(output)]

\* The identical-failure streak (lines 231-250): the counters after this output,
\* and the output with the directive appended from the third failure in a row.
TrackErrors(f, tool_name, output) ==
    IF StartsWithError(output)
    THEN LET sig == ErrorSignature(tool_name, output)
             count == IF sig = f.last_error_signature
                      THEN f.consecutive_error_count + 1 ELSE 1
         IN  [count |-> count, sig |-> sig,
              output |-> IF count >= MAX_CONSECUTIVE_ERRORS
                         THEN AppendDirective(output, count) ELSE output]
    ELSE [count |-> 0, sig |-> None, output |-> output]

\* The inline limit taken twice as large.
TooLargeForTwiceTheLimit(msg_output) == TLen(msg_output) > 2 * MAX_INLINE_CHARS

\* len(msg_output) > MAX_INLINE_CHARS
TooLargeToInline(msg_output) == TLen(msg_output) > MAX_INLINE_CHARS

\* The scratchpad keeping the preview only.
StoredPreview(msg_output) == First200(msg_output)

\* What the scratchpad keeps for an offloaded output.
Stored(msg_output) == msg_output

\* The arguments the router gets: {} when a structured call's arguments do not
\* decode.
ToolArgs(f) ==
    LET call == f.pending[f.i]
    IN  IF f.mode = "structured" /\ ~call.decodes THEN NoArgs ELSE call.args

\* From the router's output to the tool-result message (lines 231-285 for a
\* structured call, 334-365 for a text-embedded one, which keeps no streak and
\* counts the call here).
AfterToolCall(f, output, child_trace) ==
    LET call == f.pending[f.i]
        tracked == IF f.mode = "structured" THEN TrackErrors(f, call.name, output)
                   ELSE [count |-> f.consecutive_error_count,
                         sig |-> f.last_error_signature, output |-> output]
        msg_output == StripBase64(tracked.output)
        key == StoreKey(call.name, f.turn, f.i)
        large == TooLargeToInline(msg_output)
    IN  [f EXCEPT
            !.consecutive_error_count = tracked.count,
            !.last_error_signature = tracked.sig,
            !.turn_record.tool_calls =
                Append(@, ToolCallRecord(call.name, ToolArgs(f), call.id,
                                         tracked.output, child_trace)),
            !.total_tool_calls = IF f.mode = "text" THEN @ + 1 ELSE @,
            !.scratchpad = IF large THEN Put(@, key, Stored(msg_output)) ELSE @,
            !.messages = Append(@, ToolMessage(call.id,
                                    IF large THEN Receipt(key, msg_output)
                                    ELSE msg_output))]

\* The turn given up at a call that failed.
AdvanceUnlessFailed(f) ==
    IF /\ f.i < Len(f.pending)
       /\ \A n \in 1..Len(f.turn_record.tool_calls) :
             ~StartsWithError(f.turn_record.tool_calls[n].output)
    THEN [f EXCEPT !.i = @ + 1] ELSE EndTurn(f)

\* On to the next call of the message, or the turn is over.
Advance(f) == IF f.i < Len(f.pending) THEN [f EXCEPT !.i = @ + 1] ELSE EndTurn(f)

\* The sandbox is asked by execute_code only.
NoSandbox == Sandbox("", "", 0, 0, 0)

\* The skipped block counted as a tool call.
SkipBlockCounted ==
    /\ Top.pc = "tools"
    /\ Top.mode = "text"
    /\ ~Top.pending[Top.i].ok
    /\ stack' = SetTop(Advance([Top EXCEPT !.total_tool_calls = @ + 1]))
    /\ UNCHANGED << toolBudget, faultBudget, menu, sseVars, sandboxVars, otherVars >>

\* A text-embedded block whose JSON does not parse is skipped.
SkipBlock ==
    /\ Top.pc = "tools"
    /\ Top.mode = "text"
    /\ ~Top.pending[Top.i].ok
    /\ stack' = SetTop(Advance(Top))
    /\ UNCHANGED << toolBudget, faultBudget, menu, sseVars, sandboxVars, otherVars >>

\* The router handed the root call's scratchpad, whichever call of dispatch asks.
CallToolRootScratchpad ==
    /\ Top.pc = "tools"
    /\ Top.mode = "text" => Top.pending[Top.i].ok
    /\ \E sb \in IF Top.pending[Top.i].name = "execute_code" THEN SandboxResults
                 ELSE {NoSandbox} :
          LET f == Top
              r == DispatchToolCall(f.pending[f.i].name, ToolArgs(f), f.depth,
                                    stack[1].scratchpad, sb)
          IN  /\ r.kind # "spawn"
              /\ stack' = SetTop(Advance(AfterToolCall(f,
                                    IF r.kind = "raise" THEN ErrorText(r.exc)
                                    ELSE r.output, None)))
    /\ UNCHANGED << toolBudget, faultBudget, menu, sseVars, sandboxVars, otherVars >>

\* One tool call that the router answers itself (or fails on).
CallTool ==
    /\ Top.pc = "tools"
    /\ Top.mode = "text" => Top.pending[Top.i].ok
    /\ \E sb \in IF Top.pending[Top.i].name = "execute_code" THEN SandboxResults
                 ELSE {NoSandbox} :
          LET f == Top
              r == DispatchToolCall(f.pending[f.i].name, ToolArgs(f), f.depth,
                                    f.scratchpad, sb)
          IN  /\ r.kind # "spawn"
              /\ stack' = SetTop(Advance(AfterToolCall(f,
                                    IF r.kind = "raise" THEN ErrorText(r.exc)
                                    ELSE r.output, None)))
    /\ UNCHANGED << toolBudget, faultBudget, menu, sseVars, sandboxVars, otherVars >>

\* spawn_agent below the depth cap: dispatch is entered one level deeper.
SpawnSubAgent ==
    /\ Top.pc = "tools"
    /\ Top.mode = "text" => Top.pending[Top.i].ok
    /\ LET f == Top
           r == DispatchToolCall(f.pending[f.i].name, ToolArgs(f), f.depth,
                                 f.scratchpad, NoSandbox)
       IN  /\ r.kind = "spawn"
           /\ stack' = Append(SetTop([f EXCEPT !.pc = "wait"]),
                              NewFrame(r.turn_length, r.max_tokens, r.depth))
    /\ UNCHANGED << toolBudget, faultBudget, menu, sseVars, sandboxVars, otherVars >>

\* The caller of the sub-agent, back in its loop over the message's tool calls.
Parent == [stack[Len(stack) - 1] EXCEPT !.pc = "tools"]

\* The sub-agent's dispatch returned: spawn_agent builds its JSON output and hands
\* the child's trace over; the parent's loop goes on with that tool call.
SubAgentReturns ==
    /\ Len(stack) > 1
    /\ Top.pc = "returned"
    /\ stack' = Append(SubSeq(stack, 1, Len(stack) - 2),
                       Advance(AfterToolCall(Parent,
                           SpawnJson(Top.result.final_response, Top.result.turns,
                                     Top.result.tool_calls, Parent.depth + 1),
                           Top.episode)))
    /\ UNCHANGED << toolBudget, faultBudget, menu, sseVars, sandboxVars, otherVars >>

\* The sub-agent's dispatch raised: spawn_agent_wrapper's except turns the
\* exception into an "ERROR: ..." output with no child trace.
SubAgentRaises ==
    /\ Len(stack) > 1
    /\ Top.pc = "raised"
    /\ stack' = Append(SubSeq(stack, 1, Len(stack) - 2),
                       Advance(AfterToolCall(Parent, ErrorText(Top.exc), None)))
    /\ UNCHANGED << toolBudget, faultBudget, menu, sseVars, sandboxVars, otherVars >>

\* ------------------------------------------------- the live trace server
\* Browsers that may open /events, numbered in the order they connect.
Clients == 1..MaxClients

\* f"event: {event_type}\ndata: {data_json}\n\n".encode("utf-8"): the bytes of
\* the n-th event the producer formats.
SseMessage(event_type, n) == [event_type |-> event_type, n |-> n]

\* b": keepalive\n\n"
KeepAlive == [event_type |-> "keepalive", n |-> 0]

\* _SSEClient and the handler thread serving it.
\*   pc            where the handler is: "idle" (no request yet), "registered",
\*                 "loop" (testing sse_shutdown), "wait" (in event.wait),
\*                 "drain" (woken, event cleared), "write" (drain() returned,
\*                 its items being written), "closed" (handler returned)
\*   queue, event  the client's _queue and its threading.Event
\*   lock          the client's _lock is held by the handler thread
\*   items         what drain() returned and is still to be written
\*   wire          what was written to wfile, in order
\*   alive         writes to wfile still succeed
\*   connected_at  len(sse_event_log) when the client was registered
NewHandler ==
    [pc |-> "idle", queue |-> << >>, event |-> FALSE, lock |-> FALSE,
     items |-> << >>, wire |-> << >>, alive |-> TRUE, connected_at |-> 0]

\* LiveTraceServer.__init__: no httpd yet.
InitSSE ==
    /\ httpd = [started |-> FALSE, sse_shutdown |-> FALSE, waking |-> FALSE,
                sse_event_log |-> << >>, sse_clients |-> {}]
    /\ handlers = [c \in Clients |-> NewHandler]
    /\ producer = [pc |-> "idle", msg |-> KeepAlive, clients |-> {}, to |-> 0, sent |-> 0,
                   finalized |-> FALSE]
    /\ keepalives = MaxKeepAlives

\* start()
Start ==
    /\ ~httpd.started
    /\ httpd' = [httpd EXCEPT !.started = TRUE]
    /\ UNCHANGED << handlers, producer, keepalives, dispatchVars, sandboxVars, otherVars >>

\* stop(), first half: sse_shutdown.set()
Stop ==
    /\ httpd.started
    /\ ~httpd.sse_shutdown
    /\ httpd' = [httpd EXCEPT !.sse_shutdown = TRUE, !.waking = TRUE]
    /\ UNCHANGED << handlers, producer, keepalives, dispatchVars, sandboxVars, otherVars >>

\* stop(), second half: under the clients' lock every registered client's event
\* is set; the listener is shut down (handlers already running go on).
StopWake ==
    /\ httpd.waking
    /\ httpd' = [httpd EXCEPT !.waking = FALSE]
    /\ handlers' = [c \in Clients |->
                       IF c \in httpd.sse_clients
                       THEN [handlers[c] EXCEPT !.event = TRUE] ELSE handlers[c]]
    /\ UNCHANGED << producer, keepalives, dispatchVars, sandboxVars, otherVars >>

\* _broadcast_sse up to the replay log: nothing happens without an httpd;
\* else the message is formatted and appended to sse_event_log.
BroadcastLog(event_type) ==
    /\ producer.pc = "idle"
    /\ ~producer.finalized
    /\ producer.sent < MaxEvents
    /\ LET msg == SseMessage(event_type, producer.sent + 1)
       IN  IF httpd.started
           THEN /\ httpd' = [httpd EXCEPT !.sse_event_log = Append(@, msg)]
                /\ producer' = [producer EXCEPT !.pc = "snapshot", !.msg = msg,
                                                !.sent = @ + 1,
                                                !.finalized = (event_type = "finalize")]
           ELSE /\ producer' = [producer EXCEPT !.sent = @ + 1,
                                                !.finalized = (event_type = "finalize")]
                /\ UNCHANGED httpd
    /\ UNCHANGED << handlers, keepalives, dispatchVars, sandboxVars, otherVars >>

\* push_turn(...): a "turn" event
PushTurn == BroadcastLog("turn")

\* finalize(...): the "finalize" event, the producer's last
FinalizeEvent == BroadcastLog("finalize")

\* clients = list(sse_clients), under the lock
BroadcastSnapshot ==
    /\ producer.pc = "snapshot"
    /\ producer' = [producer EXCEPT
                       !.clients = httpd.sse_clients,
                       !.pc = IF httpd.sse_clients = {} THEN "idle" ELSE "enqueue"]
    /\ UNCHANGED << httpd, handlers, keepalives, dispatchVars, sandboxVars, otherVars >>

\* client.enqueue(msg), first half: with the client's _lock, the message joins
\* the client's queue
EnqueueAppend ==
    /\ producer.pc = "enqueue"
    /\ \E c \in producer.clients :
          /\ ~handlers[c].lock
          /\ handlers' = [handlers EXCEPT ![c].queue = Append(@, producer.msg)]
          /\ producer' = [producer EXCEPT !.pc = "set", !.to = c]
    /\ UNCHANGED << httpd, keepalives, dispatchVars, sandboxVars, otherVars >>

\* client.enqueue(msg), second half: event.set(); on to the next client
EnqueueSet ==
    /\ producer.pc = "set"
    /\ handlers' = [handlers EXCEPT ![producer.to].event = TRUE]
    /\ producer' = [producer EXCEPT
                       !.clients = @ \ {producer.to},
                       !.to = 0,
                       !.pc = IF producer.clients = {producer.to} THEN "idle"
                              ELSE "enqueue"]
    /\ UNCHANGED << httpd, keepalives, dispatchVars, sandboxVars, otherVars >>

\* A handler that replays nothing.
ReplayNothing(sse_event_log) == << >>

\* list(self.server.sse_event_log): the events to replay to a new client
Replay(sse_event_log) == sse_event_log

\* How many of n writes to wfile succeed: all of them, or fewer when the
\* connection breaks (no more succeed after that).
WritesDone(h, n) == IF h.alive THEN 0..n ELSE {0}

\* The handler's finally: the client leaves sse_clients, the handler returns.
Unregister(c) == [httpd EXCEPT !.sse_clients = @ \ {c}]

\* _serve_sse up to the registration: headers sent, the client added to
\* sse_clients under the lock.
Connect(c) ==
    /\ httpd.started
    /\ handlers[c].pc = "idle"
    /\ \A d \in Clients : d < c => handlers[d].pc # "idle"
    /\ httpd' = [httpd EXCEPT !.sse_clients = @ \cup {c}]
    /\ handlers' = [handlers EXCEPT ![c].pc = "registered",
                                    ![c].connected_at = Len(httpd.sse_event_log)]
    /\ UNCHANGED << producer, keepalives, dispatchVars, sandboxVars, otherVars >>

\* The replay loop: the log as it is now is written event by event, up to the
\* first write that fails.
ReplayLog(c) ==
    /\ handlers[c].pc = "registered"
    /\ LET past == Replay(httpd.sse_event_log)
       IN  \E k \in WritesDone(handlers[c], Len(past)) :
              handlers' = [handlers EXCEPT ![c].wire = @ \o SubSeq(past, 1, k),
                                           ![c].alive = @ /\ k = Len(past),
                                           ![c].pc = "loop"]
    /\ UNCHANGED << httpd, producer, keepalives, dispatchVars, sandboxVars, otherVars >>

\* The loop that never looks at sse_shutdown (while True).
LoopTestIgnoringShutdown(c) ==
    /\ handlers[c].pc = "loop"
    /\ handlers' = [handlers EXCEPT ![c].pc = "wait"]
    /\ UNCHANGED << httpd, producer, keepalives, dispatchVars, sandboxVars, otherVars >>

\* while not sse_shutdown.is_set(): into event.wait, or out of the loop
LoopTest(c) ==
    /\ handlers[c].pc = "loop"
    /\ IF httpd.sse_shutdown
       THEN /\ handlers' = [handlers EXCEPT ![c].pc = "closed"]
            /\ httpd' = Unregister(c)
       ELSE /\ handlers' = [handlers EXCEPT ![c].pc = "wait"]
            /\ UNCHANGED httpd
    /\ UNCHANGED << producer, keepalives, dispatchVars, sandboxVars, otherVars >>

\* event.wait returned True: event.clear()
Wake(c) ==
    /\ handlers[c].pc = "wait"
    /\ handlers[c].event
    /\ handlers' = [handlers EXCEPT ![c].event = FALSE, ![c].pc = "drain"]
    /\ UNCHANGED << httpd, producer, keepalives, dispatchVars, sandboxVars, otherVars >>

\* The handler that keeps the client's _lock while it writes.
LockHeldWhileWriting == TRUE

\* Whether the handler holds the client's _lock when drain() has returned: the
\* with block ends before the return.
LockAfterDrain == FALSE

\* client.drain(): with the client's _lock, the queue is copied and cleared
Drain(c) ==
    /\ handlers[c].pc = "drain"
    /\ handlers' = [handlers EXCEPT ![c].items = handlers[c].queue,
                                    ![c].queue = << >>,
                                    ![c].lock = LockAfterDrain,
                                    ![c].pc = "write"]
    /\ UNCHANGED << httpd, producer, keepalives, dispatchVars, sandboxVars, otherVars >>

\* The writes of what drain() returned; a failed write ends the handler. A
\* handler that stays here is stalled in a write.
Write(c) ==
    /\ handlers[c].pc = "write"
    /\ LET items == handlers[c].items
       IN  \E k \in WritesDone(handlers[c], Len(items)) :
              /\ handlers' = [handlers EXCEPT
                                 ![c].items = << >>,
                                 ![c].lock = FALSE,
                                 ![c].wire = @ \o SubSeq(items, 1, k),
                                 ![c].alive = @ /\ k = Len(items),
                                 ![c].pc = IF k = Len(items) THEN "loop" ELSE "closed"]
              /\ httpd' = IF k = Len(items) THEN httpd ELSE Unregister(c)
    /\ UNCHANGED << producer, keepalives, dispatchVars, sandboxVars, otherVars >>

\* event.wait timed out: the keep-alive comment is written; a failed write ends
\* the handler.
Timeout(c) ==
    /\ handlers[c].pc = "wait"
    /\ ~handlers[c].event
    /\ keepalives > 0
    /\ keepalives' = keepalives - 1
    /\ \E k \in WritesDone(handlers[c], 1) :
          /\ handlers' = [handlers EXCEPT
                             ![c].wire = IF k = 1 THEN Append(@, KeepAlive) ELSE @,
                             ![c].alive = (k = 1),
                             ![c].pc = IF k = 1 THEN "loop" ELSE "closed"]
          /\ httpd' = IF k = 1 THEN httpd ELSE Unregister(c)
    /\ UNCHANGED << producer, dispatchVars, sandboxVars, otherVars >>

\* ------------------------------------------------------ the sandbox call
\* utils.py
MAX_RETRIES == 3
INITIAL_RETRY_DELAY == 1
API_TIMEOUT == 10

\* SUPPORTED_LANGUAGES, as far as the model's inputs go
SUPPORTED_LANGUAGES == {"python", "cpp", "nodejs", "bash"}

\* No call of execute_code is under way.
NoCall == [pc |-> "none"]

\* The arguments of one execute_code call: the completion comes with a
\* ```python fence, another fence or none.
ExecuteCodeInputs ==
    [completion : {"python_fence", "fence", "plain"},
     language : {"python", "cobol"},
     compile_timeout : {10, 1},
     run_timeout : {5, 30}]

\* What one POST to the sandbox comes to: a status (200 with a JSON body, 200
\* with a body that is no JSON, 504, another HTTP error) or an exception of
\* requests (timeout, connection error).
SandboxAnswers ==
    {"200", "200_badjson", "504", "500", "404", "timeout", "connection_error"}

\* The tuple execute_code returns; either part is << >> for None, <<x>> for x.
SandboxReturn(result, error) == [result |-> result, error |-> error]

\* execute_code going to the retry loop whatever the language.
NewCallAnyLanguage(in) ==
    LET base == [pc |-> "post", in |-> in, attempt |-> 0, posts |-> << >>,
                 sleeps |-> << >>,
                 request_timeout |-> in.compile_timeout + in.run_timeout + API_TIMEOUT,
                 last_error |-> "", return |-> None]
    IN  IF in.completion = "plain"
        THEN [base EXCEPT !.pc = "done",
                          !.return = SandboxReturn(Some("0.0"), Some("Invalid completion (missing code block)"))]
        ELSE base

\* execute_code up to its retry loop: the code is cut out of the completion
\* (none without a fence), the language is checked, the request timeout is
\* computed.
NewCall(in) ==
    LET base == [pc |-> "post", in |-> in, attempt |-> 0, posts |-> << >>,
                 sleeps |-> << >>,
                 request_timeout |-> in.compile_timeout + in.run_timeout + API_TIMEOUT,
                 last_error |-> "", return |-> None]
    IN  IF in.completion = "plain"
        THEN [base EXCEPT !.pc = "done",
                          !.return = SandboxReturn(Some("0.0"), Some("Invalid completion (missing code block)"))]
        ELSE IF in.language \notin SUPPORTED_LANGUAGES
        THEN [base EXCEPT !.pc = "done",
                          !.return = SandboxReturn(<< >>, Some("Unsupported language"))]
        ELSE base

\* Every server error is retried.
AnyServerError(answer) == answer \in {"504", "500"}

\* response.status_code == 504
GatewayTimeout(answer) == answer = "504"

\* INITIAL_RETRY_DELAY * (attempt + 1), attempt counted from 0
RetryDelay(attempt) == INITIAL_RETRY_DELAY * (attempt + 1)

\* The loop is over without a result: return None, last_error
GiveUp(call, last_error) ==
    [call EXCEPT !.pc = "done", !.last_error = last_error,
                 !.return = SandboxReturn(<< >>, Some(last_error))]

\* execute_code is entered with the arguments of the call.
ExecuteCode ==
    /\ sandbox.pc = "call"
    /\ sandbox' = NewCall(sandbox.in)
    /\ UNCHANGED << dispatchVars, sseVars, otherVars >>

\* One pass of for attempt in range(MAX_RETRIES): the POST and what is made of
\* its answer.
Post ==
    /\ sandbox.pc = "post"
    /\ \E answer \in SandboxAnswers :
          LET call == [sandbox EXCEPT !.posts = Append(@, answer)]
          IN  sandbox' =
                 IF GatewayTimeout(answer)
                 THEN IF call.attempt < MAX_RETRIES - 1
                      THEN [call EXCEPT !.pc = "sleep", !.last_error = "Gateway Timeout (504)"]
                      ELSE GiveUp(call, "Gateway Timeout (504)")
                 ELSE IF answer = "200"
                 THEN [call EXCEPT !.pc = "done", !.return = SandboxReturn(Some("json"), << >>)]
                 ELSE IF answer = "200_badjson"
                 THEN GiveUp(call, "API Response JSON Decode Error")
                 ELSE GiveUp(call, "API Request Error")
    /\ UNCHANGED << dispatchVars, sseVars, otherVars >>

\* time.sleep(delay); continue
Backoff ==
    /\ sandbox.pc = "sleep"
    /\ sandbox' = [sandbox EXCEPT !.sleeps = Append(@, RetryDelay(sandbox.attempt)),
                                  !.attempt = @ + 1, !.pc = "post"]
    /\ UNCHANGED << dispatchVars, sseVars, otherVars >>

\* ------------------------------------------------- saving a trace
\* The cards of the sub-agents of a trace put after the cards of all its turns.
RECURSIVE FlattenTraceChildrenLast(_, _, _)
FlattenTraceChildrenLast(trace_dict, depth, counter) ==
    LET c0 == IF depth = 0 THEN counter ELSE << counter[1], counter[2] + 1 >>
        agent_label == IF depth = 0 THEN <<"Root">> ELSE <<"Sub-Agent", c0[2]>>
        turns == trace_dict.turns
        own == [n \in 1..Len(turns) |->
                   [type |-> "turn", id |-> <<"card", c0[1] + n>>, depth |-> depth,
                    turn |-> turns[n], turn_num |-> turns[n].turn_number,
                    agent_label |-> agent_label]]
        kids == SelectSeq(RecordsOf(turns), LAMBDA tc : tc.child_trace # None)
        RECURSIVE Below(_, _)
        Below(n, acc) ==
            IF n > Len(kids) THEN acc
            ELSE LET r == FlattenTraceChildrenLast(kids[n].child_trace, depth + 1,
                                                   acc.counter)
                 IN  Below(n + 1, [cards |-> acc.cards \o r.cards, counter |-> r.counter])
    IN  Below(1, [cards |-> own, counter |-> << c0[1] + Len(turns), c0[2] >>])

\* _flatten_trace(trace_dict, depth, counter): the cards, and the counter list
\* [card_counter, sub_agent_counter] as the call leaves it.
RECURSIVE FlattenTrace(_, _, _)
FlattenTrace(trace_dict, depth, counter) ==
    LET c0 == IF depth = 0 THEN counter ELSE << counter[1], counter[2] + 1 >>
        agent_label == IF depth = 0 THEN <<"Root">> ELSE <<"Sub-Agent", c0[2]>>
        turns == trace_dict.turns
        RECURSIVE Calls(_, _, _)
        Calls(tcs, n, acc) ==
            IF n > Len(tcs) THEN acc
            ELSE IF tcs[n].child_trace = None THEN Calls(tcs, n + 1, acc)
            ELSE LET r == FlattenTrace(tcs[n].child_trace, depth + 1, acc.counter)
                 IN  Calls(tcs, n + 1,
                           [cards |-> acc.cards \o r.cards, counter |-> r.counter])
        RECURSIVE Turns(_, _)
        Turns(n, acc) ==
            IF n > Len(turns) THEN acc
            ELSE LET cnt == << acc.counter[1] + 1, acc.counter[2] >>
                     card == [type |-> "turn", id |-> <<"card", cnt[1]>>, depth |-> depth,
                              turn |-> turns[n], turn_num |-> turns[n].turn_number,
                              agent_label |-> agent_label]
                 IN  Turns(n + 1, Calls(turns[n].tool_calls, 1,
                                        [cards |-> Append(acc.cards, card),
                                         counter |-> cnt]))
    IN  Turns(1, [cards |-> << >>, counter |-> c0])

\* render_trace_html, as far as its cards and final response go.
RenderTraceHtml(trace_dict) ==
    [k |-> "html", cards |-> FlattenTrace(trace_dict, 0, << 0, 0 >>).cards,
     final_response |-> trace_dict.final_response]

\* json.dump(self.to_dict(), f, indent=2, default=str)
JsonDump(trace) == [k |-> "json", indent |-> 2, data |-> trace]

\* A path is the sequence of its parts: names, "/" and extensions such as ".json".
\* No path given.
NoPath == << >>

\* os.path.join(TRACES_DIR, f"trace_{timestamp}_{self.trace_id}.json")
DefaultPath == <<"traces", "/", "trace_x", ".json">>

\* The paths save is called with: none, a .json file in a directory, a file
\* with another extension, a .json file in a directory whose name holds ".json".
SavePaths ==
    { NoPath,
      <<"out", "/", "t", ".json">>,
      <<"t", ".txt">>,
      <<"run", ".json", ".d", "/", "t", ".json">> }

\* path.replace(".json", ".html"): every occurrence is replaced.
ReplaceJson(path) ==
    [n \in 1..Len(path) |-> IF path[n] = ".json" THEN ".html" ELSE path[n]]

\* os.path.dirname: the parts before the last "/" (none: the working directory).
Dirname(path) ==
    LET seps == { n \in 1..Len(path) : path[n] = "/" }
    IN  IF seps = {} THEN << >>
        ELSE SubSeq(path, 1, (CHOOSE n \in seps : \A m \in seps : m <= n) - 1)

\* Nothing saved yet: the working directory is there, and no file.
NoFiles == [pc |-> "none", dirs |-> { << >> }, file |-> << >>, path |-> NoPath,
            result |-> NoPath]

\* EpisodeTrace.save(path): the directory of the JSON path is made, the JSON
\* written, then the HTML at the replaced path, whose open raises when its
\* directory is not there; the HTML path is returned.
SaveTrace(fs, trace, path) ==
    LET p == IF path = NoPath THEN DefaultPath ELSE path
        dirs == fs.dirs \cup { Dirname(p) }
        written == (p :> JsonDump(trace)) @@ fs.file
        html_path == ReplaceJson(p)
    IN  IF Dirname(html_path) \notin dirs
        THEN [pc |-> "raised", dirs |-> dirs, file |-> written, path |-> p,
              result |-> NoPath]
        ELSE [pc |-> "returned", dirs |-> dirs,
              file |-> (html_path :> RenderTraceHtml(trace)) @@ written,
              path |-> p, result |-> html_path]

\* The caller saves the trace of the finished root episode.
Save ==
    /\ files.pc = "none"
    /\ Len(stack) = 1
    /\ stack[1].pc = "returned"
    /\ \E path \in SavePaths : files' = SaveTrace(files, stack[1].episode, path)
    /\ UNCHANGED << dispatchVars, sseVars, sandboxVars, api, cards >>

\* --------------------------------------------- the cards of push_turn
\* self._card_counter = [0, 0], and no "turn" event yet
NoCards == [card_counter |-> << 0, 0 >>, events |-> << >>]

\* The sub-agent cards numbered by a counter list of their own.
PushTurnFreshCounter(card_counter, turn_record, depth) ==
    LET cnt == << card_counter[1] + 1, card_counter[2] >>
        card == [type |-> "turn", id |-> <<"card", cnt[1]>>, depth |-> depth,
                 turn |-> turn_record, turn_num |-> turn_record.turn_number,
                 agent_label |-> IF depth = 0 THEN <<"Root">> ELSE <<"Sub-Agent">>]
        kids == SelectSeq(turn_record.tool_calls, LAMBDA tc : tc.child_trace # None)
        RECURSIVE Inline(_, _)
        Inline(n, acc) ==
            IF n > Len(kids) THEN acc
            ELSE LET r == FlattenTrace(kids[n].child_trace, depth + 1, << 0, 0 >>)
                 IN  Inline(n + 1, [cards |-> acc.cards \o r.cards,
                                    counter |-> acc.counter])
    IN  Inline(1, [cards |-> << card >>, counter |-> cnt])

\* push_turn up to its broadcast: the pushed turn's card takes the next card id,
\* and the cards of the child traces of its tool calls are inlined, numbered by
\* _flatten_trace with the server's counter list.
PushTurnCards(card_counter, turn_record, depth) ==
    LET cnt == << card_counter[1] + 1, card_counter[2] >>
        card == [type |-> "turn", id |-> <<"card", cnt[1]>>, depth |-> depth,
                 turn |-> turn_record, turn_num |-> turn_record.turn_number,
                 agent_label |-> IF depth = 0 THEN <<"Root">> ELSE <<"Sub-Agent">>]
        kids == SelectSeq(turn_record.tool_calls, LAMBDA tc : tc.child_trace # None)
        RECURSIVE Inline(_, _)
        Inline(n, acc) ==
            IF n > Len(kids) THEN acc
            ELSE LET r == FlattenTrace(kids[n].child_trace, depth + 1, acc.counter)
                 IN  Inline(n + 1, [cards |-> acc.cards \o r.cards,
                                    counter |-> r.counter])
    IN  Inline(1, [cards |-> << card >>, counter |-> cnt])

\* The turns pushed: turn number n with no tool call, with a tool call that
\* carries no child trace, or with spawn_agent calls whose child traces hold no
\* turn, one turn, or two turns the first of which spawned a sub-agent itself.
PushedTurns(n) ==
    LET usage == [prompt_tokens |-> 0, completion_tokens |-> 0, total_tokens |-> 0]
        Turn0(k, calls) == [TurnRecord(k, EmptyText, usage) EXCEPT !.tool_calls = calls]
        Trace(depth, turns) ==
            [EpisodeTrace(depth, UserInput(depth), CONTEXT_WINDOW, Some(SUB_AGENT_TURN_BUDGET))
                EXCEPT !.turns = turns]
        Spawned(i, child) ==
            ToolCallRecord("spawn_agent", NoArgs, <<"call", n, i>>, EmptyText, child)
        t0 == Trace(1, << >>)
        t1 == Trace(1, << Turn0(1, << >>) >>)
        t2 == Trace(1, << Turn0(1, << Spawned(1, Trace(2, << Turn0(1, << >>) >>)) >>),
                          Turn0(2, << >>) >>)
    IN  { Turn0(n, << >>),
          Turn0(n, << Spawned(1, None) >>),
          Turn0(n, << Spawned(1, t0) >>),
          Turn0(n, << Spawned(1, t1) >>),
          Turn0(n, << Spawned(1, t2) >>),
          Turn0(n, << Spawned(1, t2), Spawned(2, t1) >>) }

\* One call of push_turn: the cards of its "turn" event.
PushTurnNumbered ==
    /\ Len(cards.events) < MaxEvents
    /\ \E depth \in {0, 1} : \E turn_record \in PushedTurns(Len(cards.events) + 1) :
          LET r == PushTurnCards(cards.card_counter, turn_record, depth)
          IN  cards' = [card_counter |-> r.counter,
                        events |-> Append(cards.events, r.cards)]
    /\ UNCHANGED << dispatchVars, sseVars, sandboxVars, api, files >>

\* ------------------------------------------- the completion requests
\* config.py MODEL_NAME
MODEL_NAME == "Qwen/Qwen3-8B"

\* config.py _DEFAULT_PROFILE (profile.get gives None for a key left out)
DEFAULT_PROFILE ==
    [context_window |-> 32768, supports_reasoning_effort |-> FALSE,
     default_reasoning_effort |-> << >>]

\* config.py MODEL_PROFILES
MODEL_PROFILES ==
    [m \in {"Qwen/Qwen3-8B", "openai/gpt-oss-20b"} |->
        IF m = "Qwen/Qwen3-8B"
        THEN [context_window |-> 32768, supports_reasoning_effort |-> FALSE,
              default_reasoning_effort |-> << >>]
        ELSE [context_window |-> 131072, supports_reasoning_effort |-> TRUE,
              default_reasoning_effort |-> <<"medium">>]]

\* MODEL_PROFILES.get(model, _DEFAULT_PROFILE)
GetModelProfile(model) ==
    IF model \in DOMAIN MODEL_PROFILES THEN MODEL_PROFILES[model] ELSE DEFAULT_PROFILE

\* Python's truth test of an optional string: None and "" are false.
Truthy(s) == s # << >> /\ s[1] # ""

\* The payload that carries the reasoning effort whatever the profile says.
PayloadAnyProfile(model, profile, reasoning_effort) ==
    [model |-> model,
     reasoning_effort |-> IF Truthy(reasoning_effort) THEN reasoning_effort ELSE << >>]

\* _call_api's payload, as far as model and reasoning_effort go: the key
\* reasoning_effort is set only for a true value and a supporting profile.
Payload(model, profile, reasoning_effort) ==
    [model |-> model,
     reasoning_effort |-> IF Truthy(reasoning_effort) /\ profile.supports_reasoning_effort
                          THEN reasoning_effort ELSE << >>]

\* A call of dispatch just entered, with its model and reasoning_effort arguments.
NewApiCall(model, reasoning_effort, depth) ==
    [pc |-> "call", model |-> model, reasoning_effort |-> reasoning_effort,
     depth |-> depth]

\* What the caller may pass the root dispatch as model and reasoning_effort:
\* nothing, a registered model with or without support, an unregistered one;
\* nothing or one of the documented efforts.
ApiInputs ==
    [model : {<< >>, <<"Qwen/Qwen3-8B">>, <<"openai/gpt-oss-20b">>, <<"my/model">>},
     reasoning_effort : {<< >>, <<"low">>, <<"high">>}]

\* No episode's requests are followed.
NoApi == [in |-> [model |-> << >>, reasoning_effort |-> << >>],
          frames |-> << >>, payloads |-> << >>]

OthersIdle == api = NoApi /\ files = NoFiles /\ cards = NoCards

ApiTop == api.frames[Len(api.frames)]

\* dispatch, lines 50-65: model = model or MODEL_NAME, the profile looked up, and
\* reasoning_effort filled from the profile when None and supported.
ResolveProfile ==
    /\ Len(api.frames) > 0
    /\ ApiTop.pc = "call"
    /\ LET f == ApiTop
           model == IF Truthy(f.model) THEN f.model[1] ELSE MODEL_NAME
           profile == GetModelProfile(model)
           reasoning_effort ==
               IF f.reasoning_effort = << >> /\ profile.supports_reasoning_effort
               THEN profile.default_reasoning_effort ELSE f.reasoning_effort
       IN  api' = [api EXCEPT !.frames[Len(api.frames)] =
                      [pc |-> "loop", model |-> <<model>>,
                       reasoning_effort |-> reasoning_effort, depth |-> f.depth]]
    /\ UNCHANGED << dispatchVars, sseVars, sandboxVars, files, cards >>

\* One completion request of the call of dispatch on top (a turn's, or a retry's).
CallApi ==
    /\ Len(api.frames) > 0
    /\ ApiTop.pc = "loop"
    /\ Len(api.payloads) < MaxRequests
    /\ LET f == ApiTop
       IN  api' = [api EXCEPT !.payloads =
                      Append(@, [depth |-> f.depth,
                                 payload |-> Payload(f.model[1], GetModelProfile(f.model[1]),
                                                     f.reasoning_effort)])]
    /\ UNCHANGED << dispatchVars, sseVars, sandboxVars, files, cards >>

\* A spawn_agent call of the loop: the router hands the loop's model and
\* reasoning_effort to spawn_agent_wrapper, and spawn_agent, below the depth
\* cap, enters dispatch with them one level deeper.
SpawnWithProfile ==
    /\ Len(api.frames) > 0
    /\ ApiTop.pc = "loop"
    /\ ApiTop.depth < MAX_RECURSION_DEPTH
    /\ api' = [api EXCEPT !.frames =
                  Append(@, NewApiCall(ApiTop.model, ApiTop.reasoning_effort,
                                       ApiTop.depth + 1))]
    /\ UNCHANGED << dispatchVars, sseVars, sandboxVars, files, cards >>

\* The call of dispatch on top returns to its caller.
ApiReturn ==
    /\ Len(api.frames) > 0
    /\ ApiTop.pc = "loop"
    /\ api' = [api EXCEPT !.frames = SubSeq(@, 1, Len(@) - 1)]
    /\ UNCHANGED << dispatchVars, sseVars, sandboxVars, files, cards >>

\* The caller's arguments to the root dispatch: (turn_length, max_tokens).
RootInputs ==
    { <<NoInt, NoInt>> }
    \cup { <<Some(n), IF n = 1 THEN Some(4096) ELSE NoInt>> : n \in 0..MaxTurnLength }

\* A run of dispatch; no live trace server is started.
Init ==
    /\ \E in \in RootInputs : stack = << NewFrame(in[1], in[2], 0) >>
    /\ menu \in Menus
    /\ toolBudget = MaxToolCalls
    /\ faultBudget = IF menu = "faults" THEN MaxFaults ELSE 0
    /\ InitSSE
    /\ sandbox = NoCall
    /\ OthersIdle

Next ==
    \/ Turn
    \/ Retry
    \/ TurnLimit
    \/ SkipBlock
    \/ CallTool
    \/ SpawnSubAgent
    \/ SubAgentReturns
    \/ SubAgentRaises

vars == << stack, toolBudget, faultBudget, menu, httpd, handlers, producer, keepalives,
          sandbox, api, files, cards >>

Spec == Init /\ [][Next]_vars

\* The arguments the model may give recall: none, a key, a query, or both.
RecallArgs ==
    { NoArgs, [key |-> StoreKey("execute_code", 1, 1)], [query |-> "s1"],
      [key |-> StoreKey("execute_code", 1, 1), query |-> "s1"] }

\* A run of dispatch whose first assistant message asks for one recall, as a
\* structured call or as a text-embedded block: the scratchpad is still empty.
InitRecall ==
    /\ menu \in Menus
    /\ \E args \in RecallArgs :
       \E resp \in { Response("tools", FALSE, << ToolCall("recall", args, TRUE) >>,
                              << >>, NoInt),
                     Response("text", FALSE, << >>,
                              << Block(TRUE, "recall", args) >>, NoInt) } :
          LET f0 == NewFrame(NoInt, NoInt, 0)
              f == [f0 EXCEPT !.turn = 1,
                              !.api_max_tokens = << f0.max_tokens >>,
                              !.api_responses = << Answer(resp) >>]
          IN  stack = << FirstResponse(f, resp) >>
    /\ toolBudget = MaxToolCalls - 1
    /\ faultBudget = IF menu = "faults" THEN MaxFaults ELSE 0
    /\ InitSSE
    /\ sandbox = NoCall
    /\ OthersIdle

SpecRecall == InitRecall /\ [][Next]_vars

\* A run of dispatch while a live trace server is up: the caller made and
\* started the server before the run. dispatch takes no server and its loop
\* calls none of the server's methods, so the run's steps are those of Next.
InitAttached ==
    /\ \E in \in RootInputs : stack = << NewFrame(in[1], in[2], 0) >>
    /\ menu \in Menus
    /\ toolBudget = MaxToolCalls
    /\ faultBudget = IF menu = "faults" THEN MaxFaults ELSE 0
    /\ httpd = [started |-> TRUE, sse_shutdown |-> FALSE, waking |-> FALSE,
                sse_event_log |-> << >>, sse_clients |-> {}]
    /\ handlers = [c \in Clients |-> NewHandler]
    /\ producer = [pc |-> "idle", msg |-> KeepAlive, clients |-> {}, to |-> 0, sent |-> 0,
                   finalized |-> FALSE]
    /\ keepalives = MaxKeepAlives
    /\ sandbox = NoCall
    /\ OthersIdle

SpecAttached == InitAttached /\ [][Next]_vars

\* A live trace server with its producer and its browsers; dispatch is not
\* running.
InitServer ==
    /\ InitSSE
    /\ stack = << >>
    /\ menu = ""
    /\ toolBudget = 0
    /\ faultBudget = 0
    /\ sandbox = NoCall
    /\ OthersIdle

NextServer ==
    \/ Start
    \/ Stop
    \/ StopWake
    \/ PushTurn
    \/ FinalizeEvent
    \/ BroadcastSnapshot
    \/ EnqueueAppend
    \/ EnqueueSet
    \/ \E c \in Clients : Connect(c)
    \/ \E c \in Clients : ReplayLog(c)
    \/ \E c \in Clients : LoopTest(c)
    \/ \E c \in Clients : Wake(c)
    \/ \E c \in Clients : Drain(c)
    \/ \E c \in Clients : Write(c)
    \/ \E c \in Clients : Timeout(c)

SpecServer == InitServer /\ [][NextServer]_vars

\* One call of execute_code against a sandbox backend that answers as it likes.
InitSandbox ==
    /\ \E in \in ExecuteCodeInputs : sandbox = [pc |-> "call", in |-> in]
    /\ OthersIdle
    /\ InitSSE
    /\ stack = << >>
    /\ menu = ""
    /\ toolBudget = 0
    /\ faultBudget = 0

NextSandbox ==
    \/ ExecuteCode
    \/ Post
    \/ Backoff

SpecSandbox == InitSandbox /\ [][NextSandbox]_vars

\* The completion requests of one episode, sub-agents included, for every model
\* and reasoning_effort the caller may pass.
InitProfile ==
    /\ \E in \in ApiInputs :
          api = [in |-> in,
                 frames |-> << NewApiCall(in.model, in.reasoning_effort, 0) >>,
                 payloads |-> << >>]
    /\ files = NoFiles
    /\ cards = NoCards
    /\ sandbox = NoCall
    /\ InitSSE
    /\ stack = << >>
    /\ menu = ""
    /\ toolBudget = 0
    /\ faultBudget = 0

NextProfile ==
    \/ ResolveProfile
    \/ CallApi
    \/ SpawnWithProfile
    \/ ApiReturn

SpecProfile == InitProfile /\ [][NextProfile]_vars

\* The push_turn calls made on one live trace server.
InitCards ==
    /\ cards = NoCards
    /\ api = NoApi
    /\ files = NoFiles
    /\ sandbox = NoCall
    /\ InitSSE
    /\ stack = << >>
    /\ menu = ""
    /\ toolBudget = 0
    /\ faultBudget = 0

SpecCards == InitCards /\ [][PushTurnNumbered]_vars

\* A run of dispatch whose caller saves the trace when the run is over.
NextSave ==
    \/ Next
    \/ Save

SpecSave == Init /\ [][NextSave]_vars

\* ------------------------------------------------------------ properties
\* The active calls of dispatch.
Frames == { stack[n] : n \in 1..Len(stack) }

\* The episode was ended by a backend error (lines 165, 169, 173, 177).
Aborted(f) ==
    /\ f.pc = "returned"
    /\ f.result.final_response.k = "text"
    /\ f.result.final_response.id.src = "api_error"

\* C1: every call of dispatch that returns (natural completion, budget
\* exhaustion or backend-error abort) reports as 'turns' the number of Turn
\* Records in the returned trace, and with a finite turn budget 'turns' never
\* exceeds the budget.
C1_TurnsIsTraceLength ==
    \A f \in Frames :
        f.pc = "returned" =>
            /\ ResultOf(f).turns = Len(ResultOf(f).trace.turns)
            /\ f.turn_length # NoInt => ResultOf(f).turns <= f.turn_length[1]

\* The root episode aborted on the answer to its first backend request.
C1_AbortedInFirstTurn ==
    /\ Len(stack) = 1
    /\ Aborted(stack[1])
    /\ stack[1].result.turns = 1

\* C2: dispatch never lets an exception escape: whatever the completion
\* backend does (200, non-200 with or without an overflow signal, no answer,
\* a body that is not the expected JSON object) the call returns its bundle.
C2_NoExceptionEscapes ==
    \A f \in Frames : f.pc # "raised"

\* The root call of dispatch ended with an exception.
C2_RootRaised ==
    /\ Len(stack) = 1
    /\ stack[1].pc = "raised"

\* The scheduler runs whatever step is enabled: a backend or tool request that
\* was made is answered, a loop that can go on does.
FairSpec == Spec /\ WF_vars(Next)

\* The call of dispatch at nesting level d was just entered with a finite budget.
EnteredWithBudget(d) ==
    /\ Len(stack) >= d
    /\ stack[d].pc = "loop"
    /\ stack[d].turn = 0
    /\ stack[d].turn_length # NoInt

\* The call of dispatch at nesting level d has returned within its budget.
ReturnedWithinBudget(d) ==
    /\ Len(stack) >= d
    /\ stack[d].pc = "returned"
    /\ stack[d].turn_length # NoInt
    /\ stack[d].result.turns <= stack[d].turn_length[1]

\* A backend request got no answer at all (requests.post raised).
NoAnswer ==
    \E f \in Frames : f.pc = "raised" /\ f.exc = "unreachable"

\* C3: a dispatch call with a finite turn budget N eventually returns, after at
\* most N turns at its own level, when every backend and tool request is
\* answered; so does every sub-agent episode of the nested tree.
C3_EventuallyReturns ==
    \A d \in 1..(MAX_RECURSION_DEPTH + 1) :
        EnteredWithBudget(d) ~> (ReturnedWithinBudget(d) \/ NoAnswer)

\* A call of dispatch with a finite budget, all of whose backend requests were
\* answered, ended with an exception.
C3_BudgetedCallRaised ==
    \E f \in Frames :
        f.turn_length # NoInt /\ f.pc = "raised" /\ f.exc # "unreachable"

\* The Tool Call Records a call of dispatch has made so far: those of its
\* finished turns and of the turn under way.
OwnRecords(f) ==
    RecordsOf(f.episode.turns)
        \o (IF f.turn_record = None THEN << >> ELSE f.turn_record.tool_calls)

Range(s) == { s[n] : n \in 1..Len(s) }

\* The record is of a call that got as far as spawn_agent itself: the wrapper
\* found a task and the router's keywords did not clash.
ReachedSpawnAgent(tc) ==
    /\ tc.tool_name = "spawn_agent"
    /\ Get(tc.tool_args, "task", "") # ""
    /\ DOMAIN tc.tool_args \cap {"_depth", "_model", "_reasoning_effort"} = {}

\* C4: spawn_agent invoked from an episode of depth 2 or more returns the
\* structured refusal with turns_used = 0 and tool_calls_made = 0 and no child
\* trace, and dispatch is not called for a sub-agent: no episode runs below
\* depth 2 and an episode at the cap never waits for one.
C4_RefusedAtDepthCap ==
    \A f \in Frames :
        /\ f.depth <= MAX_RECURSION_DEPTH
        /\ f.depth >= MAX_RECURSION_DEPTH =>
              /\ f.pc # "wait"
              /\ \A tc \in Range(OwnRecords(f)) :
                    ReachedSpawnAgent(tc) =>
                        /\ tc.output.k = "refusal"
                        /\ tc.output.turns_used = 0
                        /\ tc.output.tool_calls_made = 0
                        /\ tc.child_trace = None

\* An episode at depth 2 has called spawn_agent and recorded the answer.
C4_SpawnAtDepthCap ==
    \E f \in Frames :
        /\ f.depth = MAX_RECURSION_DEPTH
        /\ \E tc \in Range(OwnRecords(f)) : ReachedSpawnAgent(tc)

\* Every trace of the tree under trace t is at most MAX_RECURSION_DEPTH deep,
\* child traces hang on spawn_agent records only and are one level below
\* their owner.
RECURSIVE WellNested(_, _)
WellNested(depth, records) ==
    /\ depth <= MAX_RECURSION_DEPTH
    /\ \A tc \in Range(records) :
          tc.child_trace # None =>
              /\ tc.tool_name = "spawn_agent"
              /\ tc.child_trace.depth = depth + 1
              /\ WellNested(tc.child_trace.depth, RecordsOf(tc.child_trace.turns))

\* C5: in every trace tree each Episode Trace has depth at most 2, the root has
\* depth 0, a child trace has depth one more than the trace owning its Tool
\* Call Record, and only spawn_agent records carry a child trace.
C5_TraceTreeDepths ==
    /\ stack[1].episode.depth = 0
    /\ \A f \in Frames : WellNested(f.episode.depth, OwnRecords(f))
    /\ \A n \in 2..Len(stack) : stack[n].episode.depth = stack[n - 1].episode.depth + 1

\* The root's trace holds a child trace that holds a child trace.
C5_TwoLevelsBelowRoot ==
    \E tc \in Range(OwnRecords(stack[1])) :
        /\ tc.child_trace # None
        /\ \E tc2 \in Range(RecordsOf(tc.child_trace.turns)) :
              /\ tc2.child_trace # None
              /\ tc2.child_trace.depth = MAX_RECURSION_DEPTH

\* The answer was a non-200 status with a JSON body.
Non200(answer) == answer.kind \in {"error", "overflow"}

\* The answer is the overflow signal with room left: the error message names
\* max_tokens and reports "has N input tokens" with context_window - N - 256 > 0.
CallsForRetry(f, answer) ==
    /\ answer.kind = "overflow"
    /\ answer.input_tokens # NoInt
    /\ f.context_window - answer.input_tokens[1] - TOKEN_SAFETY_MARGIN > 0

\* C6: within one turn the backend is called at most twice; the second call
\* is made only after a non-200 answer carrying the overflow signal with
\* context_window - N - 256 > 0 and uses exactly that number as max_tokens;
\* after any other non-200 answer, and after a second non-200 answer, the
\* episode has aborted, with no further backend call.
C6_AtMostOneRetry ==
    \A f \in Frames :
        /\ Len(f.api_max_tokens) <= 2
        /\ Len(f.api_responses) = Len(f.api_max_tokens)
        /\ Len(f.api_max_tokens) = 2 =>
              /\ CallsForRetry(f, f.api_responses[1])
              /\ f.api_max_tokens[2] =
                    f.context_window - f.api_responses[1].input_tokens[1]
                        - TOKEN_SAFETY_MARGIN
        /\ f.pc = "retry" =>
              Len(f.api_max_tokens) = 1 /\ CallsForRetry(f, f.api_responses[1])
        /\ ( /\ Len(f.api_responses) = 1
             /\ Non200(f.api_responses[1])
             /\ ~CallsForRetry(f, f.api_responses[1]) ) => Aborted(f)
        /\ (Len(f.api_responses) = 2 /\ Non200(f.api_responses[2])) => Aborted(f)

\* A turn whose retry was answered with a non-200 status too.
C6_RetryFailed ==
    \E f \in Frames :
        /\ Len(f.api_max_tokens) = 2
        /\ Non200(f.api_responses[2])
        /\ f.api_max_tokens[2] < f.api_max_tokens[1]

\* The tool-result messages of a call of dispatch, in the order appended: the
\* n-th answers the n-th of OwnRecords.
ToolMessages(f) == SelectSeq(f.messages, LAMBDA m : m.role = "tool")

\* The message is the receipt for text: key, stored length, 200-character preview.
IsReceiptFor(f, msg, tc, text) ==
    /\ msg.k = "receipt"
    /\ msg.key[1] = tc.tool_name
    /\ msg.key \in DOMAIN f.scratchpad
    /\ msg.chars = TLen(text)
    /\ msg.preview = First200(text)
    /\ TLen(msg) <= MAX_INLINE_CHARS

KeyOf(tc) == StoreKey(tc.tool_name, tc.tool_call_id[2], tc.tool_call_id[3])

\* Record n of the call is a recall by key of what record m, an earlier one,
\* had offloaded.
RecallsOffloaded(recs, n, m) ==
    /\ m < n
    /\ recs[n].tool_name = "recall"
    /\ "key" \in DOMAIN recs[n].tool_args
    /\ recs[n].tool_args.key = KeyOf(recs[m])
    /\ TooLargeToInline(StripBase64(recs[m].output))

RouterOutput(tc) ==
    IF tc.output.k = "text" THEN [tc.output EXCEPT !.fatal = 0] ELSE tc.output

\* The call failed: its result starts with "ERROR:".
Failed(tc) == StartsWithError(RouterOutput(tc))

\* Tool name and first 200 characters of the result.
SignatureOf(tc) == ErrorSignature(tc.tool_name, RouterOutput(tc))

\* The length of the run of failures with one signature that ends at the n-th
\* tool call of the sequence; 0 when that call succeeded (or n = 0).
RECURSIVE StreakAt(_, _)
StreakAt(recs, n) ==
    IF n = 0 \/ ~Failed(recs[n]) THEN 0
    ELSE IF n > 1 /\ Failed(recs[n - 1]) /\ SignatureOf(recs[n - 1]) = SignatureOf(recs[n])
    THEN StreakAt(recs, n - 1) + 1
    ELSE 1

\* C9: over the tool calls of one episode, in order, the third of three
\* consecutive failures with the same signature carries the "stop retrying"
\* directive, and the streak the loop keeps is 1 after a failure with a new
\* signature and 0 after a successful call.
C9_ThirdIdenticalFailureFlagged ==
    \A f \in Frames :
        LET recs == OwnRecords(f)
        IN  /\ \A n \in 1..Len(recs) :
                  StreakAt(recs, n) = MAX_CONSECUTIVE_ERRORS => recs[n].output.fatal > 0
            /\ StreakAt(recs, Len(recs)) \in {0, 1} =>
                  f.consecutive_error_count = StreakAt(recs, Len(recs))

\* Three failures in a row with one signature, the third without the directive.
C9_ThirdFailureUnflagged ==
    \E f \in Frames :
        \E n \in 1..Len(OwnRecords(f)) :
            /\ StreakAt(OwnRecords(f), n) = MAX_CONSECUTIVE_ERRORS
            /\ OwnRecords(f)[n].output.fatal = 0

\* The events written to a client's stream, in order (keep-alive comments
\* are no events).
EventsOn(wire) == SelectSeq(wire, LAMBDA m : m.event_type # "keepalive")

\* C10: a client that connects to /events after N events have been broadcast
\* receives exactly those N events, in broadcast order, before any event
\* broadcast later: the first N events of its stream are the first N of the
\* log, and once the replay is through on an unbroken connection all N are
\* there.
C10_ReplayBeforeLater ==
    \A c \in Clients :
        LET got == EventsOn(handlers[c].wire)
            n == handlers[c].connected_at
        IN  /\ \A k \in 1..Len(got) : k <= n => got[k] = httpd.sse_event_log[k]
            /\ (handlers[c].pc \in {"loop", "wait", "drain", "write", "closed"}
                    /\ handlers[c].alive) => Len(got) >= n

\* A client that connected after two events has them and a later one.
C10_LateJoinerCaughtUp ==
    \E c \in Clients :
        /\ handlers[c].connected_at = 2
        /\ Len(EventsOn(handlers[c].wire)) > 2

\* One step of the handler thread of client c. The keep-alive timeout is left
\* out: nothing below relies on it.
HandlerStep(c) == ReplayLog(c) \/ LoopTest(c) \/ Wake(c) \/ Drain(c) \/ Write(c)

\* One step of a broadcast under way.
ProducerStep == BroadcastSnapshot \/ EnqueueAppend \/ EnqueueSet

\* The threads run: a handler that can take a step takes it (its writes end,
\* by success or by failure), a broadcast or a stop() that was begun goes on.
FairSpecServer ==
    /\ SpecServer
    /\ \A c \in Clients : WF_vars(HandlerStep(c))
    /\ WF_vars(ProducerStep)
    /\ WF_vars(StopWake)

\* Event n was enqueued for client c and is not written yet.
Owed(c, n) ==
    \/ \E k \in 1..Len(handlers[c].queue) : handlers[c].queue[k].n = n
    \/ \E k \in 1..Len(handlers[c].items) : handlers[c].items[k].n = n

\* Event n was written to the stream of client c.
Written(c, n) ==
    \E k \in 1..Len(handlers[c].wire) :
        handlers[c].wire[k].n = n /\ handlers[c].wire[k].event_type # "keepalive"

\* The events on the stream of client c are in production order.
InProductionOrder(c) ==
    LET got == EventsOn(handlers[c].wire)
    IN  \A j \in 1..Len(got) : \A k \in 1..Len(got) : j < k => got[j].n <= got[k].n

\* C11: whatever the interleaving of push_turn, finalize and stop with the
\* handler threads, every event broadcast while a client is registered is
\* eventually written to that client's stream unless its connection breaks,
\* and the stream is in production order.
C11_EveryEventDelivered ==
    /\ \A c \in Clients : \A n \in 1..MaxEvents :
          Owed(c, n) ~> (Written(c, n) \/ ~handlers[c].alive)
    /\ [](\A c \in Clients : InProductionOrder(c))

\* A handler has returned on an unbroken connection and left an event in its
\* client's queue.
C11_EventLeftInQueue ==
    \E c \in Clients :
        /\ handlers[c].pc = "closed"
        /\ handlers[c].alive
        /\ handlers[c].queue # << >>
        /\ producer.pc = "idle"

FairProducerSpec == SpecServer /\ WF_vars(ProducerStep)

\* What a handler thread owns: its position, the drained items, its stream and
\* the state of its connection, and the client's _lock while it holds it.
HandlerSide(c) ==
    << handlers[c].pc, handlers[c].items, handlers[c].wire, handlers[c].alive,
       handlers[c].lock, handlers[c].connected_at >>

\* C13: a broadcast always completes, whatever the handlers do or fail to do,
\* and its steps only append to the replay log, to the clients' queues and set
\* their events: no step of it writes to a stream or touches what a handler
\* thread owns.
C13_BroadcastNeverWaits ==
    /\ (producer.pc # "idle") ~> (producer.pc = "idle")
    /\ [][(PushTurn \/ FinalizeEvent \/ ProducerStep) =>
             /\ \A c \in Clients : HandlerSide(c)' = HandlerSide(c)
             /\ httpd'.sse_clients = httpd.sse_clients
             /\ httpd'.sse_shutdown = httpd.sse_shutdown]_vars

\* A broadcast has returned while a handler was in the middle of its writes:
\* the event is in that client's queue, the event set.
C13_BroadcastPastStalledHandler ==
    \E c \in Clients :
        /\ handlers[c].pc = "write"
        /\ handlers[c].items # << >>
        /\ handlers[c].queue # << >>
        /\ handlers[c].event
        /\ producer.pc = "idle"

\* C14: one execute_code call posts to the sandbox at most 3 times; a further
\* attempt is made only after a 504, after a delay of 1 s and then 2 s, with no
\* delay after the third attempt; any other failure of an attempt ends the call
\* there, with an error result.
C14_OnlyGatewayTimeoutRetried ==
    LET posts == sandbox.posts
        sleeps == sandbox.sleeps
    IN  sandbox.pc \notin {"none", "call"} =>
          /\ Len(posts) <= 3
          /\ \A k \in 1..(Len(posts) - 1) : posts[k] = "504"
          /\ Len(sleeps) <= 2
          /\ \A k \in 1..Len(sleeps) : sleeps[k] = k
          /\ sandbox.pc = "post" => Len(sleeps) = Len(posts)
          /\ sandbox.pc = "sleep" => Len(sleeps) = Len(posts) - 1 /\ Last(posts) = "504"
          /\ (sandbox.pc = "done" /\ posts # << >>) =>
                /\ Len(sleeps) = Len(posts) - 1
                /\ Last(posts) = "504" => Len(posts) = 3
                /\ Last(posts) = "200" <=> sandbox.return.error = << >>
                /\ Last(posts) # "200" => sandbox.return.result = << >>

\* The call gave up after three attempts, each answered 504, having slept 1 s
\* and 2 s.
C14_ThreeGatewayTimeouts ==
    /\ sandbox.pc = "done"
    /\ sandbox.posts = << "504", "504", "504" >>
    /\ sandbox.sleeps = << 1, 2 >>
    /\ sandbox.return = SandboxReturn(<< >>, Some("Gateway Timeout (504)"))

\* The step hands the result of a tool call to the loop of the call of dispatch
\* that made it: the router returned or raised (the frame on top is at a call
\* that is no sub-agent to enter and no block to skip), or the sub-agent on top
\* returned or raised.
SettlesToolCall ==
    \/ /\ Top.pc = "tools"
       /\ Top.mode = "text" => Top.pending[Top.i].ok
       /\ DispatchToolCall(Top.pending[Top.i].name, ToolArgs(Top), Top.depth,
                           Top.scratchpad, NoSandbox).kind # "spawn"
    \/ /\ Len(stack) > 1
       /\ Top.pc \in {"returned", "raised"}

\* The depth of the frame whose tool call the step settles.
SettledDepth == IF Top.pc = "tools" THEN Len(stack) ELSE Len(stack) - 1

\* What a step that settles a failed tool call leaves of the caller's frame f in
\* g: the call recorded, the loop still running, a tool-result message for the
\* call appended, the next call of the turn up or, after the last one, the loop
\* back at its top, where the next backend call is made unless the turn limit is
\* reached.
FailureAbsorbed(f, g) ==
    LET recs == OwnRecords(g)
        tc == Last(recs)
    IN  /\ Len(recs) = Len(OwnRecords(f)) + 1
        /\ Failed(tc) =>
              /\ g.pc \in {"tools", "loop"}
              /\ g.messages = Append(f.messages, Last(g.messages))
              /\ Last(g.messages).role = "tool"
              /\ Last(g.messages).tool_call_id = tc.tool_call_id
              /\ f.i < Len(f.pending) =>
                    g.pc = "tools" /\ g.pending = f.pending /\ g.i = f.i + 1
              /\ f.i = Len(f.pending) =>
                    /\ g.pc = "loop"
                    /\ ~TurnLimitReached(g) => Responses(g) # {}

\* C15 as stated: a tool call that fails never ends the episode; its error text
\* is appended to the conversation as that call's tool-result message, the
\* remaining tool calls of the turn are still executed, and below the turn limit
\* the loop goes on to another backend call.
C15_ErrorTextIsTheToolMessage ==
    [][SettlesToolCall =>
          /\ Len(stack') >= SettledDepth
          /\ FailureAbsorbed(stack[SettledDepth], stack'[SettledDepth])
          /\ LET g == stack'[SettledDepth]
                 tc == Last(OwnRecords(g))
             IN  Failed(tc) => Last(g.messages).content = tc.output]_vars

\* C15: a tool call that fails never ends the episode; a tool-result message for
\* the call is appended, holding the error text or, when that text is longer
\* than the inline limit, the receipt of its storage in the scratchpad; the
\* remaining tool calls of the turn are still executed, and below the turn limit
\* the loop goes on to another backend call.
C15_FailureAbsorbed ==
    [][SettlesToolCall =>
          /\ Len(stack') >= SettledDepth
          /\ FailureAbsorbed(stack[SettledDepth], stack'[SettledDepth])
          /\ LET g == stack'[SettledDepth]
                 tc == Last(OwnRecords(g))
                 content == Last(g.messages).content
             IN  Failed(tc) =>
                    IF TooLargeToInline(tc.output)
                    THEN IsReceiptFor(g, content, tc, tc.output)
                    ELSE content = tc.output]_vars

\* A call of dispatch went on to a second turn after a turn in which a tool call
\* failed with an error text over the inline limit and another call followed it.
C15_WentOnAfterLongFailure ==
    \E f \in Frames :
        /\ f.turn >= 2
        /\ Len(f.episode.turns) >= 1
        /\ LET calls == f.episode.turns[1].tool_calls
           IN  /\ Len(calls) >= 2
               /\ Failed(calls[1])
               /\ TooLargeToInline(calls[1].output)

\* The router's answers to the tool call the frame on top is about to make, one
\* for each answer the sandbox may give.
RouterAnswers ==
    IF Len(stack) > 0 /\ Top.pc = "tools" /\ (Top.mode = "text" => Top.pending[Top.i].ok)
    THEN { DispatchToolCall(Top.pending[Top.i].name, ToolArgs(Top), Top.depth,
                            Top.scratchpad, sb) :
              sb \in IF Top.pending[Top.i].name = "execute_code" THEN SandboxResults
                     ELSE {NoSandbox} }
    ELSE {}

\* C16: whatever tool name and argument mapping the model supplies, the router
\* returns an output (or enters the sub-agent whose result becomes the output)
\* and lets no exception escape; for a name that matches no tool the output is
\* the "Unknown tool" text, with no child trace.
C16_RouterNeverRaises ==
    \A r \in RouterAnswers :
        /\ r.kind # "raise"
        /\ Top.pending[Top.i].name \notin ToolNames =>
              /\ r.kind = "output"
              /\ r.output.k = "text"
              /\ r.output.id.src = "unknown_tool"
              /\ StartsWithError(r.output)

\* The loop is at a spawn_agent call whose arguments name _depth: the router's
\* call of the wrapper raises TypeError.
C16_RouterRaises ==
    \E r \in RouterAnswers :
        /\ r.kind = "raise"
        /\ Top.pending[Top.i].name = "spawn_agent"
        /\ "_depth" \in DOMAIN ToolArgs(Top)

\* The conversation of the call ends with an assistant message that carries no
\* structured tool call and no text-embedded block.
EndsWithPlainAnswer(f) ==
    /\ Last(f.messages).role = "assistant"
    /\ Last(f.messages).tool_calls = << >>
    /\ Last(f.messages).blocks = << >>

\* C17: an assistant message with no structured tool call and no text-embedded
\* block completes the episode in its turn: the turn is recorded, the message's
\* content is the final response, and the call of dispatch makes no further
\* backend call or tool call (once it has returned, nothing of it changes).
C17_PlainAnswerCompletes ==
    /\ [](\A f \in Frames :
             EndsWithPlainAnswer(f) =>
                /\ f.pc = "returned"
                /\ f.result.final_response = Last(f.messages).content
                /\ f.result.turns = f.turn
                /\ f.episode.turns # << >>
                /\ Last(f.episode.turns).turn_number = f.turn
                /\ Last(f.episode.turns).assistant_content = Last(f.messages).content
                /\ Last(f.episode.turns).tool_calls = << >>)
    /\ [][\A d \in 1..Len(stack) :
             stack[d].pc = "returned" => (Len(stack') < d \/ stack'[d] = stack[d])]_vars

\* A call of dispatch returned on a plain answer given in its second turn, after
\* a turn of tool calls.
C17_AnsweredAfterTools ==
    \E f \in Frames :
        /\ EndsWithPlainAnswer(f)
        /\ f.pc = "returned"
        /\ f.turn = 2
        /\ f.episode.turns[1].tool_calls # << >>

\* The call of dispatch left its loop at the turn limit: it has returned with
\* its turns used up, and its last turn, if it made one, ended after the tool
\* calls of an accepted message.
ReturnedAtTurnLimit(f) ==
    /\ f.pc = "returned"
    /\ TurnLimitReached(f)
    /\ \/ f.turn = 0
       \/ /\ f.api_responses # << >>
          /\ Last(f.api_responses).kind \in {"tools", "text"}

RouterTexts ==
    IF Top.pc = "tools"
    THEN { IF r.kind = "raise" THEN ErrorText(r.exc) ELSE r.output : r \in RouterAnswers }
    ELSE IF Top.pc = "returned"
    THEN { SpawnJson(Top.result.final_response, Top.result.turns,
                     Top.result.tool_calls, Parent.depth + 1) }
    ELSE { ErrorText(Top.exc) }

\* C19: the output stored in a Tool Call Record is the unmodified output the
\* router returned for the call (or the "ERROR: ..." text made of its
\* exception).
C19_RecordHoldsRouterOutput ==
    [][SettlesToolCall =>
          /\ Len(stack') >= SettledDepth
          /\ LET recs == OwnRecords(stack'[SettledDepth])
             IN  /\ recs # << >>
                 /\ Last(recs).output \in RouterTexts]_vars

\* A Tool Call Record holds an output that ends with the "stop retrying"
\* directive, which the router did not return.
C19_RecordHoldsDirective ==
    \E f \in Frames :
        LET recs == OwnRecords(f)
        IN  \E n \in 1..Len(recs) :
               /\ recs[n].output.k = "text"
               /\ recs[n].output.fatal > 0
               /\ recs[n].output # RouterOutput(recs[n])

\* C20: building the tool-result message (base64 sections stripped, long
\* outputs offloaded) leaves the output of the call's Tool Call Record as it
\* was: the record holds the router's output with its base64 payload in full,
\* whatever the message and the scratchpad hold, and the records made before
\* stay as they are.
C20_RecordKeepsPayload ==
    /\ [][SettlesToolCall =>
             /\ Len(stack') >= SettledDepth
             /\ LET recs == OwnRecords(stack'[SettledDepth])
                IN  /\ recs = Append(OwnRecords(stack[SettledDepth]), Last(recs))
                    /\ RouterOutput(Last(recs)) \in RouterTexts]_vars
    /\ [](\A f \in Frames :
             LET recs == OwnRecords(f)
             IN  \A n \in 1..Len(recs) :
                    (recs[n].tool_name = "execute_code" /\ recs[n].output.k = "text")
                        => ~recs[n].output.stripped)

\* A tool call returned a file in base64; its tool-result message is the
\* receipt of the stripped text, and its record holds the payload.
C20_StrippedAndOffloaded ==
    \E f \in Frames :
        LET recs == OwnRecords(f)
            msgs == ToolMessages(f)
        IN  \E n \in 1..Len(recs) :
               /\ n <= Len(msgs)
               /\ recs[n].output.k = "text"
               /\ recs[n].output.b64 > 0
               /\ msgs[n].content.k = "receipt"
               /\ msgs[n].content.preview.stripped
               /\ f.scratchpad[msgs[n].content.key].stripped

\* C21: aggregation is idempotent: compute_recursive_stats run again on a
\* finalized trace tree leaves every recursive total of every node as the first
\* run left it.
C21_AggregationIdempotent ==
    \A f \in Frames :
        f.pc = "returned" => ComputeRecursiveStats(f.episode) = f.episode

\* The root call returned with a trace tree two levels deep: a sub-agent's trace
\* that holds the trace of a sub-agent of its own.
C21_TwoLevelsFinalized ==
    /\ stack[1].pc = "returned"
    /\ \E tc \in Range(RecordsOf(stack[1].episode.turns)) :
          /\ tc.child_trace # None
          /\ \E tc2 \in Range(RecordsOf(tc.child_trace.turns)) :
                /\ tc2.child_trace # None
                /\ tc2.child_trace.total_turns >= 1

\* The traces of a trace tree, the root first: the walk of _count over the
\* child traces held by the Tool Call Records.
RECURSIVE Subtree(_)
Subtree(trace) ==
    LET kids == SelectSeq(RecordsOf(trace.turns), LAMBDA tc : tc.child_trace # None)
        RECURSIVE Below(_)
        Below(n) == IF n = 0 THEN << >>
                    ELSE Below(n - 1) \o Subtree(kids[n].child_trace)
    IN  << trace >> \o Below(Len(kids))

\* What there is in a trace tree: its Turn Records, its Tool Call Records, those
\* that carry a child trace, and the token counts of its turns.
SubtreeCounts(trace) ==
    LET nodes == Subtree(trace)
        turns == [n \in 1..Len(nodes) |-> Len(nodes[n].turns)]
        calls == [n \in 1..Len(nodes) |-> Len(RecordsOf(nodes[n].turns))]
        Tokens(t, field) == Sum([n \in 1..Len(t.turns) |-> t.turns[n][field]])
    IN  [turns |-> Sum(turns), calls |-> Sum(calls), subs |-> Len(nodes) - 1,
         prompt_tok |-> Sum([n \in 1..Len(nodes) |-> Tokens(nodes[n], "prompt_tokens")]),
         comp_tok |-> Sum([n \in 1..Len(nodes) |-> Tokens(nodes[n], "completion_tokens")]),
         total_tok |-> Sum([n \in 1..Len(nodes) |-> Tokens(nodes[n], "total_tokens")])]

\* C22: after dispatch returns, the root trace's recursive aggregates are the
\* sums over its subtree: the Turn Records, the Tool Call Records, the per-turn
\* token counts, and the Tool Call Records that carry a child trace.
C22_AggregatesAreSubtreeSums ==
    stack[1].pc = "returned" =>
        LET trace == stack[1].episode
            counts == SubtreeCounts(trace)
        IN  /\ trace.total_turns_recursive = counts.turns
            /\ trace.total_tool_calls_recursive = counts.calls
            /\ trace.total_sub_agents_spawned = counts.subs
            /\ trace.total_prompt_tokens = counts.prompt_tok
            /\ trace.total_completion_tokens = counts.comp_tok
            /\ trace.total_tokens = counts.total_tok

\* The root call returned on a backend error in a turn that left no Turn
\* Record: the trace counts more turns than it holds.
C22_TurnCountedNotRecorded ==
    /\ stack[1].pc = "returned"
    /\ stack[1].episode.total_turns_recursive > SubtreeCounts(stack[1].episode).turns

\* C23: for every finalized trace, at any depth, the direct tool-call count (in
\* the trace and in the returned bundle) is the number of Tool Call Records in
\* the trace's own turns, whether the calls were structured, text-embedded, or
\* text-embedded with blocks that did not parse.
C23_DirectCountIsRecordCount ==
    \A f \in Frames :
        f.pc = "returned" =>
            /\ f.result.tool_calls = Len(RecordsOf(f.episode.turns))
            /\ LET nodes == Subtree(f.episode)
               IN  \A n \in 1..Len(nodes) :
                      nodes[n].total_tool_calls = Len(RecordsOf(nodes[n].turns))

\* A call of dispatch returned after a message of text-embedded blocks of which
\* one was routed and one did not parse.
C23_ReturnedAfterSkippedBlock ==
    \E f \in Frames :
        /\ f.pc = "returned"
        /\ f.episode.total_tool_calls >= 1
        /\ \E n \in 1..Len(f.messages) :
              /\ f.messages[n].role = "assistant"
              /\ \E a, b \in 1..Len(f.messages[n].blocks) :
                    f.messages[n].blocks[a].ok /\ ~f.messages[n].blocks[b].ok

\* C24: a sub-agent entered by a spawn_agent call below the depth cap runs with
\* the turn_length and max_tokens the calling model supplied (its trace records
\* them), and with turn budget 5 and the context window where one was omitted.
C24_SubAgentRunsWithSuppliedValues ==
    \A d \in 2..Len(stack) :
        LET args == ToolArgs(stack[d - 1])
            trace == stack[d].episode
        IN  /\ trace.turn_length = Get(args, "turn_length", Some(SUB_AGENT_TURN_BUDGET))
            /\ trace.max_tokens = Get(args, "max_tokens", Some(CONTEXT_WINDOW))[1]
            /\ stack[d].max_tokens = trace.max_tokens

\* A sub-agent is running whose caller supplied max_tokens = 1024: its trace
\* records the context window.
C24_SuppliedMaxTokensIgnored ==
    \E d \in 2..Len(stack) :
        LET args == ToolArgs(stack[d - 1])
        IN  /\ "max_tokens" \in DOMAIN args
            /\ args.max_tokens = Some(1024)
            /\ stack[d].episode.max_tokens = CONTEXT_WINDOW
            /\ stack[d].turn >= 1

\* C25: every call of dispatch starts with an empty scratchpad of its own; what
\* a recall returns is an entry of the scratchpad of the episode that makes the
\* call (or one of recall's fixed messages), every entry of a scratchpad was
\* offloaded by a tool call of that same episode, and nothing a sub-agent does
\* changes the scratchpad of a caller.
C25_ScratchpadPerEpisode ==
    /\ [](\A f \in Frames :
             LET recs == OwnRecords(f)
             IN  /\ \A key \in DOMAIN f.scratchpad :
                       \E n \in 1..Len(recs) :
                          /\ recs[n].tool_name = key[1]
                          /\ f.scratchpad[key] = StripBase64(recs[n].output)
                 /\ \A n \in 1..Len(recs) :
                       (recs[n].tool_name = "recall"
                          /\ ~(recs[n].output.k = "text"
                                /\ recs[n].output.id.src \in {"recall", "exception"}))
                       => /\ recs[n].tool_args.key \in DOMAIN f.scratchpad
                          /\ f.scratchpad[recs[n].tool_args.key] = RouterOutput(recs[n]))
    /\ [][/\ Len(stack') > Len(stack) => Top'.scratchpad = EmptyScratchpad
          /\ \A d \in 1..(Len(stack) - 1) :
                d < Len(stack') => stack'[d].scratchpad = stack[d].scratchpad]_vars

\* A sub-agent with an empty scratchpad asked recall for a key under which its
\* caller holds an entry, and was told that the scratchpad is empty.
C25_ChildAskedForParentsKey ==
    /\ Len(stack) >= 2
    /\ Top.scratchpad = EmptyScratchpad
    /\ \E tc \in Range(OwnRecords(Top)) :
          /\ tc.tool_name = "recall"
          /\ tc.tool_args.key \in DOMAIN stack[Len(stack) - 1].scratchpad
          /\ tc.output.id = Ident("recall", "empty", 0)

\* C26: execute_code given a completion with no code fence, or a language
\* outside the supported list, returns an error result and makes no request to
\* the sandbox backend.
C26_NoRequestWithoutFenceOrLanguage ==
    (sandbox.pc \notin {"none", "call"}
        /\ (sandbox.in.completion = "plain"
               \/ sandbox.in.language \notin SUPPORTED_LANGUAGES))
    => /\ sandbox.pc = "done"
       /\ sandbox.posts = << >>
       /\ sandbox.sleeps = << >>
       /\ sandbox.return.error # << >>

\* The call was given fenced code in a language the sandbox does not support and
\* has returned its error.
C26_UnsupportedLanguageRefused ==
    /\ sandbox.pc = "done"
    /\ sandbox.in.completion = "python_fence"
    /\ sandbox.in.language = "cobol"
    /\ sandbox.return = SandboxReturn(<< >>, Some("Unsupported language"))

\* C27: recall on an empty scratchpad returns the fixed "Scratchpad is empty"
\* message whichever of key and query is given (none, either, both), and the
\* scratchpad is empty afterwards.
C27_EmptyScratchpadMessage ==
    [][(/\ Top.pc = "tools"
        /\ Top.mode = "text" => Top.pending[Top.i].ok
        /\ Top.pending[Top.i].name = "recall"
        /\ Top.scratchpad = EmptyScratchpad)
       => /\ Len(stack') = Len(stack)
          /\ Last(OwnRecords(Top')).tool_name = "recall"
          /\ Last(OwnRecords(Top')).output = RecallWrapper(EmptyScratchpad, NoArgs)
          /\ Last(OwnRecords(Top')).output.id = Ident("recall", "empty", 0)
          /\ Last(Top'.messages).content = Last(OwnRecords(Top')).output
          /\ Top'.scratchpad = EmptyScratchpad]_vars

\* recall was asked with a key and a query while the scratchpad was empty, and
\* answered with the fixed message.
C27_AskedWithKeyAndQuery ==
    \E f \in Frames :
        LET recs == OwnRecords(f)
        IN  /\ recs # << >>
            /\ recs[1].tool_name = "recall"
            /\ DOMAIN recs[1].tool_args = {"key", "query"}
            /\ recs[1].output.id = Ident("recall", "empty", 0)

\* C28: with a live trace server attached to the run, push_turn is called once
\* after every completed turn, in turn order, and finalize once at the end,
\* after the last push_turn: while the root call runs the server's event log
\* holds one "turn" event for each root turn recorded, and once it has returned
\* these are followed by one "finalize" event.
C28_LogFollowsTurns ==
    LET log == httpd.sse_event_log
        turns == Len(stack[1].episode.turns)
    IN  /\ \A n \in 1..turns : n <= Len(log) /\ log[n].event_type = "turn"
        /\ stack[1].pc = "returned" =>
              /\ Len(log) = turns + 1
              /\ Last(log).event_type = "finalize"
        /\ stack[1].pc # "returned" => Len(log) = turns

\* The root call returned after two recorded turns while the started server's
\* event log is empty.
C28_ReturnedWithEmptyLog ==
    /\ httpd.started
    /\ stack[1].pc = "returned"
    /\ Len(stack[1].episode.turns) = 2
    /\ httpd.sse_event_log = << >>

\* C29: after a large output was stored under a key and answered with a
\* receipt, a later recall with that key in the same episode puts the stored
\* data, whole, into the conversation as the tool-result message of the recall.
C29_RecallShowsStoredData ==
    \A f \in Frames :
        LET recs == OwnRecords(f)
            msgs == ToolMessages(f)
        IN  \A n \in 1..Len(msgs) : \A m \in 1..Len(recs) :
                RecallsOffloaded(recs, n, m) =>
                    msgs[n].content = f.scratchpad[KeyOf(recs[m])]

\* A recall by the key of an offloaded output returned the stored text, and its
\* tool-result message is a receipt again, under a key of the recall's own.
C29_RecallAnsweredWithReceipt ==
    \E f \in Frames :
        LET recs == OwnRecords(f)
            msgs == ToolMessages(f)
        IN  \E n \in 1..Len(msgs) : \E m \in 1..Len(recs) :
                /\ RecallsOffloaded(recs, n, m)
                /\ recs[n].output = f.scratchpad[KeyOf(recs[m])]
                /\ msgs[n].content.k = "receipt"
                /\ msgs[n].content.key = KeyOf(recs[n])
                /\ msgs[n].content.key # KeyOf(recs[m])

\* What the handling of a structured call makes of the router's output for the
\* call that the step from f to g settled: the streak counters, the recorded
\* output (with the directive from the third identical failure), and the
\* tool-result message (the stripped output, or its receipt above the limit).
HandledLikeStructured(f, g) ==
    LET tc == Last(OwnRecords(g))
        call == f.pending[f.i]
        tracked == TrackErrors(f, tc.tool_name, RouterOutput(tc))
        shown == StripBase64(tracked.output)
        content == Last(g.messages).content
    IN  /\ Len(OwnRecords(g)) = Len(OwnRecords(f)) + 1
        /\ tc.tool_name = call.name
        /\ tc.tool_args = call.args
        /\ tc.tool_call_id = call.id
        /\ tc.output = tracked.output
        /\ g.consecutive_error_count = tracked.count
        /\ g.last_error_signature = tracked.sig
        /\ g.messages = Append(f.messages, ToolMessage(call.id, content))
        /\ IF TooLargeToInline(shown)
           THEN /\ IsReceiptFor(g, content, tc, shown)
                /\ g.scratchpad = Put(f.scratchpad, KeyOf(tc), shown)
           ELSE content = shown /\ g.scratchpad = f.scratchpad

\* C30: a text-embedded tool call is processed like a structured one: it is
\* routed with the caller's depth and scratchpad, recorded, base64-stripped,
\* offloaded above 500 characters, and counted in the identical-failure streak,
\* with the "stop retrying" directive on the third identical failure; a block
\* that fails to parse is skipped, and the loop goes on without finalizing.
C30_TextCallsHandledLikeStructured ==
    [][/\ (SettlesToolCall /\ stack[SettledDepth].mode = "text") =>
             /\ Len(stack') >= SettledDepth
             /\ HandledLikeStructured(stack[SettledDepth], stack'[SettledDepth])
       /\ (Top.pc = "tools" /\ Top.mode = "text" /\ ~Top.pending[Top.i].ok) =>
             /\ Len(stack') = Len(stack)
             /\ stack'[Len(stack)].pc \in {"tools", "loop"}
             /\ OwnRecords(stack'[Len(stack)]) = OwnRecords(Top)
             /\ stack'[Len(stack)].messages = Top.messages]_vars

\* Three text-embedded calls failed in a row with one signature, the third is
\* recorded without the directive, and the loop's streak counter is still 0.
C30_TextFailuresUncounted ==
    \E f \in Frames :
        LET recs == OwnRecords(f)
        IN  \E n \in 3..Len(recs) :
                /\ \A k \in (n - 2)..n : recs[k].tool_call_id[1] = "text_tc"
                /\ StreakAt(recs, n) = MAX_CONSECUTIVE_ERRORS
                /\ recs[n].output.fatal = 0
                /\ f.consecutive_error_count = 0

\* C31: at every point of an episode the conversation begins with one system
\* message (the orchestrator prompt at depth 0, the worker prompt below) and the
\* user's task; an assistant message with k structured tool calls is followed,
\* before the next backend call, by exactly k tool-result messages in call
\* order, each tagged with the id of its call (while the turn is under way, by
\* those of the calls already settled).
C31_ConversationShape ==
    \A f \in Frames :
        LET msgs == f.messages
            last == Len(msgs)
            asst == { j \in 1..last : msgs[j].role = "assistant" }
            under_way(j) == /\ f.pc \in {"tools", "wait"}
                            /\ \A j2 \in asst : j2 <= j
        IN  /\ last >= 2
            /\ msgs[1] = Message("system", SystemPrompt(f.depth))
            /\ msgs[2] = Message("user", UserInput(f.depth))
            /\ \A j \in 2..last : msgs[j].role # "system"
            /\ \A j \in asst :
                  LET k == Len(msgs[j].tool_calls)
                      settled == IF under_way(j) THEN f.i - 1 ELSE k
                  IN  k > 0 =>
                        /\ last >= j + settled
                        /\ \A n \in 1..settled :
                              /\ msgs[j + n].role = "tool"
                              /\ msgs[j + n].tool_call_id = msgs[j].tool_calls[n].id
                        /\ last > j + settled => msgs[j + settled + 1].role = "assistant"
                        /\ under_way(j) => last = j + settled

\* A sub-agent, seeded with the worker prompt, is about to make its next backend
\* call after a turn with a structured tool call, and its caller, seeded with
\* the orchestrator prompt, has settled the first call of its turn and waits
\* for the second.
C31_CallsAnsweredAtBothLevels ==
    /\ Len(stack) = 2
    /\ stack[2].pc = "loop"
    /\ stack[2].messages[1].content = SystemPrompt(1)
    /\ \E j \in 1..Len(stack[2].messages) :
          /\ Len(stack[2].messages[j].tool_calls) >= 1
          /\ stack[2].messages[j + 1].role = "tool"
    /\ stack[1].messages[1].content = SystemPrompt(0)
    /\ stack[1].pc = "wait"
    /\ stack[1].i = 2
    /\ Last(stack[1].messages).role = "tool"

\* C32: a completion request carries reasoning_effort only when the profile of
\* the resolved model declares support: for a model without support (an
\* unregistered one included) no request of the episode, a sub-agent's
\* included, carries it, whatever the caller passed; for a model with support
\* every request carries the caller's value if one was given, else the
\* profile's default.
C32_ReasoningEffortOnlyWhenSupported ==
    LET model == IF api.in.model = << >> THEN MODEL_NAME ELSE api.in.model[1]
        supported == model = "openai/gpt-oss-20b"
    IN  \A n \in 1..Len(api.payloads) :
            LET p == api.payloads[n].payload
            IN  /\ p.model = model
                /\ ~supported => p.reasoning_effort = << >>
                /\ supported =>
                      p.reasoning_effort = IF api.in.reasoning_effort # << >>
                                           THEN api.in.reasoning_effort
                                           ELSE <<"medium">>

\* The caller passed "high" with an unregistered model; the root and a sub-agent
\* have each posted a request.
C32_EffortPassedToUnregisteredModel ==
    /\ api.in = [model |-> <<"my/model">>, reasoning_effort |-> <<"high">>]
    /\ \E n \in 1..Len(api.payloads) : api.payloads[n].depth = 0
    /\ \E n \in 1..Len(api.payloads) : api.payloads[n].depth = 1

\* C33: flattening a trace tree yields one card per turn of the whole subtree
\* in depth-first execution order: the cards of the sub-agents spawned in a turn
\* come right after that turn's card and before the card of the next turn of
\* the same agent; card ids are card-1, card-2, ... in sequence order; the
\* root's cards are labelled Root and a sub-agent's cards Sub-Agent #K, K
\* counting the sub-agents in the order first met.
C33_CardsDepthFirst ==
    files.pc = "returned" =>
        LET trace == stack[1].episode
            nodes == Subtree(trace)
            flat == files.file[files.result].cards
            AgentOf(n) == IF flat[n].agent_label = <<"Root">> THEN 1
                          ELSE flat[n].agent_label[2] + 1
            Before(n) == Cardinality({ m \in 1..n : AgentOf(m) = AgentOf(n) })
            Inlined(turn) ==
                LET kids == SelectSeq(turn.tool_calls, LAMBDA tc : tc.child_trace # None)
                IN  Sum([k \in 1..Len(kids) |-> SubtreeCounts(kids[k].child_trace).turns])
        IN  /\ Len(flat) = SubtreeCounts(trace).turns
            /\ \A n \in 1..Len(flat) :
                  /\ flat[n].id = <<"card", n>>
                  /\ AgentOf(n) \in 1..Len(nodes)
                  /\ flat[n].depth = nodes[AgentOf(n)].depth
                  /\ (flat[n].depth = 0) = (flat[n].agent_label = <<"Root">>)
                  /\ Before(n) <= Len(nodes[AgentOf(n)].turns)
                  /\ flat[n].turn = nodes[AgentOf(n)].turns[Before(n)]
                  /\ n + Inlined(flat[n].turn) <= Len(flat)
                  /\ \A m \in (n + 1)..(n + Inlined(flat[n].turn)) :
                        flat[m].depth > flat[n].depth
                  /\ n + Inlined(flat[n].turn) < Len(flat) =>
                        flat[n + Inlined(flat[n].turn) + 1].depth <= flat[n].depth
                  /\ Inlined(flat[n].turn) > 0 => AgentOf(n + 1) > AgentOf(n)

\* The saved rendering of a trace whose root made two turns, the first of which
\* spawned a sub-agent with a turn of its own: root card, sub-agent card, root
\* card.
C33_SubAgentCardBetweenRootCards ==
    /\ files.pc = "returned"
    /\ LET flat == files.file[files.result].cards
       IN  /\ Len(flat) >= 3
           /\ flat[1].agent_label = <<"Root">>
           /\ flat[2].agent_label = <<"Sub-Agent", 1>>
           /\ \E n \in 3..Len(flat) : flat[n].agent_label = <<"Root">>

\* C35: after save returns, for any target path, the file at the JSON path
\* holds the indented JSON serialization of the trace, a second file with the
\* same base name and the extension .html holds the HTML rendering, and the
\* value returned is the path of that HTML file.
C35_JsonAndHtmlSideBySide ==
    files.pc = "returned" =>
        LET json_path == files.path
            html_path == [json_path EXCEPT ![Len(json_path)] = ".html"]
        IN  /\ json_path \in DOMAIN files.file
            /\ files.file[json_path] = JsonDump(stack[1].episode)
            /\ html_path # json_path
            /\ html_path \in DOMAIN files.file
            /\ files.file[html_path] = RenderTraceHtml(stack[1].episode)
            /\ files.result = html_path

\* save returned for a path without ".json": the only file written holds the
\* HTML rendering, under the path given for the JSON.
C35_HtmlOverJson ==
    /\ files.pc = "returned"
    /\ files.path = <<"t", ".txt">>
    /\ files.result = files.path
    /\ DOMAIN files.file = { files.path }
    /\ files.file[files.path].k = "html"

\* C34: over any sequence of push_turn calls on one server the card ids put
\* into "turn" events (the pushed turn's card and the inlined sub-agent cards)
\* are pairwise distinct and strictly increasing in emission order, and no
\* sub-agent number is used again: a number labels the cards of one sub-agent,
\* within one event.
C34_CardIdsIncrease ==
    LET RECURSIVE Emitted(_)
        Emitted(n) == IF n = 0 THEN << >> ELSE Emitted(n - 1) \o cards.events[n]
        all == Emitted(Len(cards.events))
        Numbered(c) == Len(c.agent_label) = 2
    IN  /\ \A i \in 1..Len(all) : \A j \in 1..Len(all) :
              i < j => all[i].id[1] = "card" /\ all[i].id[2] < all[j].id[2]
        /\ \A e1 \in 1..Len(cards.events) : \A e2 \in 1..Len(cards.events) :
              e1 < e2 =>
                 \A i \in 1..Len(cards.events[e1]) : \A j \in 1..Len(cards.events[e2]) :
                    LET c1 == cards.events[e1][i]
                        c2 == cards.events[e2][j]
                    IN  (Numbered(c1) /\ Numbered(c2)) =>
                            c1.agent_label[2] < c2.agent_label[2]
        /\ \A e \in 1..Len(cards.events) :
              LET ev == cards.events[e]
              IN  \A i \in 1..Len(ev) : \A j \in 1..Len(ev) :
                     ( /\ i < j
                       /\ Numbered(ev[i]) /\ Numbered(ev[j])
                       /\ ev[i].agent_label = ev[j].agent_label ) =>
                          /\ ev[i].depth = ev[j].depth
                          /\ ev[i].turn_num < ev[j].turn_num
                          /\ \A m \in i..j : ev[m].depth >= ev[i].depth

\* Two turns were pushed, each with the cards of two sub-agent levels inlined.
C34_TwoEventsWithSubAgentCards ==
    /\ Len(cards.events) >= 2
    /\ \A e \in 1..2 : \E i \in 1..Len(cards.events[e]) : cards.events[e][i].depth = 2

\* C36: the stream written to any one SSE client holds each broadcast event at
\* most once, for every interleaving of the client's connecting (register,
\* then replay of the log) with a broadcast (append to the log, then enqueue to
\* the registered clients).
C36_NoEventTwiceOnAStream ==
    \A c \in Clients :
        LET events == EventsOn(handlers[c].wire)
        IN  \A i \in 1..Len(events) : \A j \in 1..Len(events) :
                i # j => events[i] # events[j]

\* A client's stream holds the first event of the log twice in a row: once from
\* the replay and once from its queue.
C36_ReplayedAndEnqueued ==
    \E c \in Clients :
        LET events == EventsOn(handlers[c].wire)
        IN  /\ Len(events) >= 2
            /\ events[1] = httpd.sse_event_log[1]
            /\ events[2] = events[1]

\* C37: within one episode no two offloaded outputs get the same scratchpad
\* key, so the scratchpad only grows: it holds one entry for every output
\* offloaded so far, and an entry once stored is neither overwritten nor
\* removed while the episode runs.
C37_ScratchpadOnlyGrows ==
    /\ [](\A f \in Frames :
             LET recs == OwnRecords(f)
                 offloaded == { n \in 1..Len(recs) :
                                  TooLargeToInline(StripBase64(recs[n].output)) }
             IN  /\ \A n \in offloaded : \A m \in offloaded :
                        n # m => KeyOf(recs[n]) # KeyOf(recs[m])
                 /\ DOMAIN f.scratchpad = { KeyOf(recs[n]) : n \in offloaded }
                 /\ Cardinality(DOMAIN f.scratchpad) = Cardinality(offloaded))
    /\ [][\A d \in 1..Len(stack) :
             d <= Len(stack') =>
                \A key \in DOMAIN stack[d].scratchpad :
                    /\ key \in DOMAIN stack'[d].scratchpad
                    /\ stack'[d].scratchpad[key] = stack[d].scratchpad[key]]_vars

\* An episode offloaded two outputs of the same tool, in two turns, and holds
\* both.
C37_TwoEntriesOfOneTool ==
    \E f \in Frames :
        \E k1 \in DOMAIN f.scratchpad : \E k2 \in DOMAIN f.scratchpad :
            /\ k1[1] = k2[1]
            /\ k1[2] < k2[2]
            /\ f.scratchpad[k1] # f.scratchpad[k2]

\* C38: every sub-agent episode runs with a finite turn budget, the turn_length
\* the calling model supplied, or 5 when it supplied none or null, also when
\* the root episode runs with no limit; the sub-agent makes no more turns than
\* that, and every child trace records a finite budget.
C38_SubAgentBudgetFinite ==
    /\ \A d \in 2..Len(stack) :
          LET args == ToolArgs(stack[d - 1])
              supplied == IF "turn_length" \in DOMAIN args THEN args.turn_length
                          ELSE NoInt
          IN  /\ stack[d].turn_length # NoInt
              /\ stack[d].turn_length =
                    IF supplied = NoInt THEN Some(SUB_AGENT_TURN_BUDGET) ELSE supplied
              /\ stack[d].turn <= stack[d].turn_length[1]
    /\ \A f \in Frames :
          LET nodes == Subtree(f.episode)
          IN  \A n \in 2..Len(nodes) : nodes[n].turn_length # NoInt

\* A root episode without a turn limit spawned a sub-agent with turn_length
\* null: the sub-agent runs, in its first turn, with the budget 5.
C38_NullBudgetUnderUnlimitedRoot ==
    /\ Len(stack) = 2
    /\ stack[1].turn_length = NoInt
    /\ "turn_length" \in DOMAIN ToolArgs(stack[1])
    /\ ToolArgs(stack[1]).turn_length = NoInt
    /\ stack[2].turn_length = Some(SUB_AGENT_TURN_BUDGET)
    /\ stack[2].turn >= 1

\* C39: no argument the model supplies changes the depth, model or reasoning
\* effort of a spawned sub-agent: a spawn_agent call whose arguments name
\* _depth, _model or _reasoning_effort creates no sub-agent and no child trace
\* and yields an error text; every sub-agent runs one level below its caller,
\* and none below the depth cap.
C39_InjectedKeywordsRefused ==
    /\ [](\A d \in 1..Len(stack) :
             stack[d].depth = d - 1 /\ stack[d].depth <= MAX_RECURSION_DEPTH)
    /\ [][( /\ Top.pc = "tools"
            /\ Top.mode = "text" => Top.pending[Top.i].ok
            /\ Top.pending[Top.i].name = "spawn_agent"
            /\ DOMAIN ToolArgs(Top) \cap {"_depth", "_model", "_reasoning_effort"} # {} ) =>
              /\ Len(stack') = Len(stack)
              /\ LET g == stack'[Len(stack)]
                     tc == Last(OwnRecords(g))
                 IN  /\ Len(OwnRecords(g)) = Len(OwnRecords(Top)) + 1
                     /\ tc.tool_call_id = Top.pending[Top.i].id
                     /\ tc.child_trace = None
                     /\ tc.output.k = "text"
                     /\ StartsWithError(tc.output)
                     /\ Last(g.messages).role = "tool"]_vars

\* A spawn_agent call that named _depth is recorded with an error text and no
\* child trace, and its episode went on to another turn.
C39_InjectedDepthAnsweredWithError ==
    \E f \in Frames :
        /\ f.turn >= 2
        /\ \E n \in 1..Len(OwnRecords(f)) :
              LET tc == OwnRecords(f)[n]
              IN  /\ tc.tool_name = "spawn_agent"
                  /\ "_depth" \in DOMAIN tc.tool_args
                  /\ tc.child_trace = None
                  /\ StartsWithError(tc.output)
====
